---- MODULE Spec2Model ----
(***************************************************************************)
(* A model of optiscaler-auto-manager: the install / uninstall state       *)
(* machine of OptiScalerInstaller over one target directory and the        *)
(* installation ledger (optiscaler_installer.py, cli.py), the edit of      *)
(* OptiScaler.ini (configure_optiscaler_ini) and the executable ranker     *)
(* (SteamUtils.find_game_executable_paths).                                *)
(*                                                                         *)
(* Nine specifications share the module's variables:                       *)
(*   Spec           installs and uninstalls driven by the menu loop        *)
(*   SpecRoundTrip  one install followed by its uninstall, no failure      *)
(*   SpecIni        configure_optiscaler_ini applied to bounded documents  *)
(*   SpecRank       find_game_executable_paths over bounded trees          *)
(*   SpecGames      get_steam_games over bounded libraries and manifests   *)
(*   SpecFetch      download_latest_nightly over bounded release listings  *)
(*   SpecReinstall  installs and uninstalls that all run to their end      *)
(*   SpecSetup      run_optiscaler_setup over scripts and terminals        *)
(*   SpecFsr        FSRManager: select, copy and remove the FSR4 DLL       *)
(***************************************************************************)
EXTENDS Integers, Sequences, FiniteSets, TLC

VARIABLES
    dir,            \* the target directory: file or directory name -> content
    orig,           \* the target directory as it was before the first install
    compatExists,   \* <steam>/steamapps/compatdata/<app_id> exists
    compatAsset,    \* amdxcffx64.dll is present in the app's system32
    installs_file,  \* installations.json: [exists, doc]
    pc,             \* where the menu loop of cli.main_menu stands
    op,             \* the last operation the menu loop called
    result,         \* what the last operation returned
    trace,          \* the steps the last operation executed, in order
    install_idx,    \* the uninstall branch: the index the operator chose
    selected_install, \* the uninstall branch: <<installs[install_idx]>>
    now,            \* the clock: one tick per call of install_optiscaler
    faults,         \* environment failures injected so far
    ini,            \* OptiScaler.ini: [exists, text]
    ini0,           \* the document configure_optiscaler_ini started from
    calls,          \* calls of configure_optiscaler_ini so far
    tree,           \* [game_dir, files]: a game directory and its *.exe files
    todo,           \* the executables rglob has not yielded yet
    exe_locations,  \* the list find_game_executable_paths builds
    rpc,            \* where find_game_executable_paths stands
    steam,          \* [steam_path, vdf, mounts]: where Steam libraries are found
    manifests,      \* the appmanifest_*.acf files of the libraries
    game_dirs,      \* the existing steamapps/common/<dir>, with their st_mtime
    steam_libraries, \* get_steam_games: the libraries from the current one on
    gtodo,          \* the manifests of the current library not read yet
    games,          \* the list get_steam_games builds
    gpc,            \* where get_steam_games stands
    listing,        \* the answer of the release listing: [error, releases]
    download_ok,    \* the download of an asset succeeds
    fetched,        \* what download_latest_nightly returned
    setup,          \* run_optiscaler_setup: its environment and what it did
    fsr             \* FSRManager: its cached path, the files, the last call

vars == <<dir, orig, compatExists, compatAsset, installs_file, pc, op, result,
          trace, install_idx, selected_install, now, faults, ini, ini0, calls, tree, todo,
          exe_locations, rpc, steam, manifests, game_dirs, steam_libraries, gtodo,
          games, gpc, listing, download_ok, fetched, setup, fsr>>

mainVars == <<dir, orig, compatExists, compatAsset, installs_file, pc, op, result,
              trace, install_idx, selected_install, now, faults>>
iniVars == <<ini, ini0, calls>>
rankVars == <<tree, todo, exe_locations, rpc>>
gamesVars == <<steam, manifests, game_dirs, steam_libraries, gtodo, games, gpc>>
fetchVars == <<listing, download_ok, fetched>>

(***************************************************************************)
(* Bounds of the model.                                                    *)
(***************************************************************************)
\* calls of install_optiscaler in one run
MaxInstalls == 2
\* environment failures (I/O errors, a failing extraction) in one run
MaxFaults == 1
\* lines of the OptiScaler.ini a run starts from
MaxIniLines == 3
\* calls of configure_optiscaler_ini in one run
MaxCalls == 2
\* executables in the tree of a game
MaxFiles == 3
\* manifest files in all the libraries together
MaxManifests == 3
\* the latest modification time of an install directory
MaxMtime == 2
\* releases in the listing
MaxReleases == 2

(***************************************************************************)
(* Sequence helpers.                                                       *)
(***************************************************************************)
Range(s) == {s[i] : i \in 1..Len(s)}

\* Python's list.pop(i) for a 1-based position p
RemoveAt(s, p) == SubSeq(s, 1, p - 1) \o SubSeq(s, p + 1, Len(s))

\* the first position of s whose element satisfies Test, 0 when none does
FirstIndex(s, Test(_)) ==
    IF \E i \in 1..Len(s) : Test(s[i])
    THEN CHOOSE i \in 1..Len(s) : Test(s[i]) /\ \A j \in 1..(i - 1) : ~Test(s[j])
    ELSE 0

(***************************************************************************)
(* The target directory maps each name that exists in it to its content:   *)
(* the game's original file, or a file that came out of the OptiScaler     *)
(* archive.                                                                *)
(***************************************************************************)
Original == "original"
Shim == "shim"

\* Path.exists()
Exists(d, name) == name \in DOMAIN d

\* a file written (created or overwritten) with content c
Write(d, name, c) == [x \in DOMAIN d \cup {name} |-> IF x = name THEN c ELSE d[x]]

\* Path.unlink(), shutil.rmtree()
Remove(d, name) == [x \in DOMAIN d \ {name} |-> d[x]]

\* backup_original_files: files_to_backup
files_to_backup ==
    <<"nvngx.dll", "libxess.dll", "amd_fidelityfx_fsr2.dll",
      "amd_fidelityfx_fsr3.dll", "ffx_fsr2_api_x64.dll">>

\* uninstall_optiscaler: optiscaler_files
optiscaler_files ==
    <<"OptiScaler.dll", "OptiScaler.ini", "OptiScaler.log", "OptiScaler Setup.bat",
      "setup_linux.sh", "setup_windows.bat", "remove_optiscaler.sh",
      "dxgi.dll", "winmm.dll", "version.dll", "dbghelp.dll",
      "d3d12.dll", "wininet.dll", "winhttp.dll", "OptiScaler.asi",
      "nvngx.dll", "libxess.dll", "amd_fidelityfx_fsr2.dll",
      "amd_fidelityfx_fsr3.dll", "ffx_fsr2_api_x64.dll">>

\* uninstall_optiscaler: optiscaler_dirs
optiscaler_dirs == <<"D3D12_Optiscaler", "DlssOverrides", "Licenses">>

\* run_optiscaler_setup: setup_scripts
setup_scripts == <<"setup_linux.sh", "OptiScaler Setup.sh", "setup.sh">>

\* run_optiscaler_removal_script: removal_scripts
removal_scripts ==
    <<"remove_optiscaler.sh", "uninstall_optiscaler.sh", "remove.sh", "uninstall.sh">>

\* run_optiscaler_setup: terminals (the command names, in the order tried)
terminals ==
    <<"konsole", "gnome-terminal", "xfce4-terminal", "alacritty", "kitty",
      "terminator", "xterm">>

\* backup_original_files: f"{filename}.optiscaler_backup"
BackupName(filename) == filename \o ".optiscaler_backup"

(***************************************************************************)
(* The archive handed to install_optiscaler: its members in the order      *)
(* extraction writes them.                                                 *)
(***************************************************************************)
Archives ==
    { <<"OptiScaler.dll", "nvngx.dll", "setup_linux.sh", "Licenses">>,
      <<"OptiScaler.ini", "OptiScaler Setup.bat", "amd_fidelityfx_fsr2.dll",
        "dxgi.dll">> }

(***************************************************************************)
(* The ledger: installations.json.                                         *)
(***************************************************************************)
\* load_installations: the stored list, [] when the file is missing
load_installations(file) == IF file.exists THEN file.doc ELSE <<>>

\* json.dump(installs, f): the whole document is rewritten
DumpInstallations(installs) == [exists |-> TRUE, doc |-> installs]

\* a variant that rewrites the document without loading it first
SaveWithoutLoad(file, install_info) == DumpInstallations(<<install_info>>)

\* save_installation: load, append, rewrite
save_installation(file, install_info) ==
    DumpInstallations(Append(load_installations(file), install_info))

(***************************************************************************)
(* backup_original_files.                                                  *)
(***************************************************************************)
\* the names of files_to_backup that exist in the directory
ExistingOriginals(d) == {f \in Range(files_to_backup) : Exists(d, f)}

RECURSIVE BackupLoopMove(_, _)
\* a variant of the loop that moves each file to its backup name
BackupLoopMove(d, k) ==
    IF k > Len(files_to_backup) THEN d
    ELSE LET filename == files_to_backup[k] IN
         IF Exists(d, filename)
         THEN BackupLoopMove(Remove(Write(d, BackupName(filename), d[filename]),
                                    filename), k + 1)
         ELSE BackupLoopMove(d, k + 1)

RECURSIVE BackupLoop(_, _)
\* the loop of backup_original_files from position k on: shutil.copy2
BackupLoop(d, k) ==
    IF k > Len(files_to_backup) THEN d
    ELSE LET filename == files_to_backup[k] IN
         IF Exists(d, filename)
         THEN BackupLoop(Write(d, BackupName(filename), d[filename]), k + 1)
         ELSE BackupLoop(d, k + 1)

\* backup_original_files: the directory afterwards and the returned backup_map
backup_original_files(d) ==
    [dir |-> BackupLoop(d, 1),
     map |-> [f \in ExistingOriginals(d) |-> BackupName(f)]]

(***************************************************************************)
(* extract_optiscaler: the first k members of the archive are written      *)
(* (all of them when extraction succeeds), each over what was there.       *)
(***************************************************************************)
extract_optiscaler(d, archive, k) ==
    LET written == {archive[i] : i \in 1..k}
    IN [x \in DOMAIN d \cup written |-> IF x \in written THEN Shim ELSE d[x]]

(***************************************************************************)
(* install_optiscaler, step by step.  The trace of an operation lists the  *)
(* steps it executed.                                                      *)
(***************************************************************************)

\* subprocess.run(["wine", setup_bat], check=True): what the environment answers
WineOutcomes == {"ok", "nonzero", "missing"}

\* the first of `scripts` that exists in the directory, "" when none does
FirstExisting(d, scripts) ==
    LET Found(n) == Exists(d, n)
        i == FirstIndex(scripts, Found)
    IN IF i = 0 THEN "" ELSE scripts[i]

\* the terminals the environment may offer first: none, the first of the
\* list, the last of the list
TerminalCases == {0, 1, Len(terminals)}

\* run_optiscaler_setup / run_optiscaler_removal_script: the steps taken for
\* the first existing script.  term is the position of the first terminal
\* `which` finds (0: none), answer the operator's reply to the manual prompt,
\* err whether chmod or Popen raised (caught by `except Exception`).
RunScript(d, scripts, term, answer, err) ==
    LET script == FirstExisting(d, scripts) IN
    IF script = "" THEN <<>>
    ELSE IF err THEN <<script, "error">>
    ELSE IF term # 0
         THEN <<script, terminals[term]>>
         ELSE <<script, "prompt", answer>>

\* everything run_optiscaler_setup / run_optiscaler_removal_script may do,
\* over what the environment and the operator may answer
ScriptRuns(d, scripts) ==
    {RunScript(d, scripts, term, answer, err) :
        term \in TerminalCases, answer \in {"y", "n"}, err \in BOOLEAN}

\* the script step as the trace of install and uninstall records it: the
\* function returned, whatever it did
SetupStep(launch) == <<"script">>

\* configure_optiscaler_ini seen from the directory: the file exists afterwards
ConfigureIniFile(d) ==
    IF Exists(d, "OptiScaler.ini") THEN d ELSE Write(d, "OptiScaler.ini", Shim)

\* a variant of install_info that records the asset as copied in any case
InstallInfoCopiedAlways(timestamp, backup_map, zip_path, fsr4_dll_copied) ==
    [timestamp |-> timestamp, backup_files |-> backup_map, zip_source |-> zip_path,
     fsr4_dll_copied |-> TRUE]

\* install_optiscaler: install_info
InstallInfo(timestamp, backup_map, zip_path, fsr4_dll_copied) ==
    [timestamp |-> timestamp, backup_files |-> backup_map, zip_source |-> zip_path,
     fsr4_dll_copied |-> fsr4_dll_copied]

\* install_optiscaler up to the extraction: backup, then extract k members
InstallPrefix(archive, k) ==
    extract_optiscaler(backup_original_files(dir).dir, archive, k)

\* a variant that goes on to record the installation after a failed extraction
InstallExtractFailsRecorded ==
    /\ pc = "menu" /\ now < MaxInstalls /\ faults < MaxFaults
    /\ \E archive \in Archives : \E k \in 0..(Len(archive) - 1) :
         /\ dir' = ConfigureIniFile(InstallPrefix(archive, k))
         /\ installs_file' =
                save_installation(installs_file,
                    InstallInfo(now + 1, backup_original_files(dir).map, archive, FALSE))
         /\ trace' = <<"backup", "extract failed", "script", "ini", "save">>
    /\ op' = "install"
    /\ result' = "True"
    /\ pc' = "returned"
    /\ now' = now + 1
    /\ faults' = faults + 1
    /\ UNCHANGED <<orig, compatExists, compatAsset, install_idx, selected_install>>
    /\ UNCHANGED <<iniVars, rankVars, gamesVars, fetchVars, setup, fsr>>

\* install_optiscaler: extraction fails after k members were written;
\* the function returns False at once
InstallExtractFails ==
    /\ pc = "menu" /\ now < MaxInstalls /\ faults < MaxFaults
    /\ \E archive \in Archives : \E k \in 0..(Len(archive) - 1) :
         /\ dir' = InstallPrefix(archive, k)
         /\ trace' = <<"backup", "extract failed">>
    /\ op' = "install"
    /\ result' = "False"
    /\ pc' = "returned"
    /\ now' = now + 1
    /\ faults' = faults + 1
    /\ UNCHANGED <<orig, compatExists, compatAsset, installs_file, install_idx,
                   selected_install>>
    /\ UNCHANGED <<iniVars, rankVars, gamesVars, fetchVars, setup, fsr>>

\* install_optiscaler: the Windows setup script exists and wine is not
\* installed: subprocess.run raises FileNotFoundError, which nothing catches
InstallWineMissing ==
    /\ pc = "menu" /\ now < MaxInstalls
    /\ \E archive \in Archives :
         LET d2 == InstallPrefix(archive, Len(archive)) IN
         /\ Exists(d2, "OptiScaler Setup.bat")
         /\ dir' = d2
         /\ trace' = <<"backup", "extract", "bat">>
    /\ op' = "install"
    /\ result' = "raised"
    /\ pc' = "raised"
    /\ now' = now + 1
    /\ UNCHANGED <<orig, compatExists, compatAsset, installs_file, install_idx,
                   selected_install, faults>>
    /\ UNCHANGED <<iniVars, rankVars, gamesVars, fetchVars, setup, fsr>>

\* install_optiscaler: every step after a successful extraction, then
\* save_installation and return True
InstallCompletes ==
    /\ pc = "menu" /\ now < MaxInstalls
    /\ \E archive \in Archives :
         LET bk == backup_original_files(dir)
             d2 == extract_optiscaler(bk.dir, archive, Len(archive))
             has_bat == Exists(d2, "OptiScaler Setup.bat")
             d3 == ConfigureIniFile(d2)
         IN
         \E wine \in (IF has_bat THEN WineOutcomes \ {"missing"} ELSE {"ok"}),
            launch \in ScriptRuns(d2, setup_scripts),
            copied \in (IF compatExists THEN BOOLEAN ELSE {FALSE}) :
             /\ dir' = d3
             /\ compatAsset' = (compatAsset \/ copied)
             /\ installs_file' =
                    save_installation(installs_file,
                                      InstallInfo(now + 1, bk.map, archive, copied))
             /\ trace' = <<"backup", "extract">>
                          \o (IF has_bat THEN <<"bat">> ELSE <<>>)
                          \o SetupStep(launch) \o <<"ini">>
                          \o (IF compatExists THEN <<"asset">> ELSE <<>>)
                          \o <<"save">>
    /\ op' = "install"
    /\ result' = "True"
    /\ pc' = "returned"
    /\ now' = now + 1
    /\ UNCHANGED <<orig, compatExists, install_idx, selected_install, faults>>
    /\ UNCHANGED <<iniVars, rankVars, gamesVars, fetchVars, setup, fsr>>

(***************************************************************************)
(* uninstall_optiscaler.  After the removal script, the function is a      *)
(* list of file operations, each guarded by an existence test and none     *)
(* inside a try block: unlink per name of optiscaler_files, rmtree per     *)
(* name of optiscaler_dirs, shutil.move per entry of backup_files.         *)
(***************************************************************************)
FileOp(o, phase, target, source) ==
    [op |-> o, phase |-> phase, target |-> target, source |-> source]

UnlinkSteps == [i \in 1..Len(optiscaler_files) |->
                    FileOp("unlink", "files", optiscaler_files[i], "")]

RmtreeSteps == [i \in 1..Len(optiscaler_dirs) |->
                    FileOp("rmtree", "dirs", optiscaler_dirs[i], "")]

\* install_info.get("backup_files", {}).items(): the insertion order of
\* backup_original_files, that of files_to_backup
RestoreSteps(install_info) ==
    LET Recorded(n) == n \in DOMAIN install_info.backup_files
        keys == SelectSeq(files_to_backup, Recorded)
    IN [i \in 1..Len(keys) |->
            FileOp("move", "restore", keys[i], install_info.backup_files[keys[i]])]

\* a variant that restores the backups before the known names are deleted
UninstallStepsRestoreFirst(install_info) ==
    RestoreSteps(install_info) \o UnlinkSteps \o RmtreeSteps

UninstallSteps(install_info) ==
    UnlinkSteps \o RmtreeSteps \o RestoreSteps(install_info)

\* whether the step's existence test passes, so that it touches the disk
Acts(d, st) ==
    IF st.op = "move" THEN Exists(d, st.source) ELSE Exists(d, st.target)

\* one file operation: unlink and rmtree remove the name, shutil.move renames
\* the backup over the original name
ApplyStep(d, st) ==
    IF ~Acts(d, st) THEN d
    ELSE IF st.op = "move"
         THEN Remove(Write(d, st.target, d[st.source]), st.source)
         ELSE Remove(d, st.target)

RECURSIVE StepStates(_, _, _)
\* the directory before the first step and after each of the first k steps
StepStates(d, steps, k) ==
    IF k = 0 THEN <<d>>
    ELSE LET before == StepStates(d, steps, k - 1)
         IN Append(before, ApplyStep(before[k], steps[k]))

\* the directory after the first k steps
RunSteps(d, steps, k) == StepStates(d, steps, k)[k + 1]

UninstallPhases == <<"files", "dirs", "restore">>

\* the phases entered when the function stops in phase `last`
PhasesThrough(last) ==
    LET Is(ph) == ph = last
    IN SubSeq(UninstallPhases, 1, FirstIndex(UninstallPhases, Is))

(***************************************************************************)
(* The uninstall branch of main_menu (choice 4).                           *)
(***************************************************************************)
\* what the operator may type at "Installation to uninstall (1-N)"
MenuInputs == (0 - MaxInstalls)..(MaxInstalls + 1)

\* Python's installs[i]: defined for -len <= i < len
PyValid(len, i) == (0 - len) <= i /\ i < len

\* the inputs for which installs[n - 1] is defined
ValidInputs(len) == {n \in MenuInputs : PyValid(len, n - 1)}

\* the 1-based position Python's installs[i] reads
PyPos(len, i) == IF i >= 0 THEN i + 1 ELSE len + i + 1

\* "No installations to uninstall"
MenuUninstallEmpty ==
    /\ pc = "menu"
    /\ load_installations(installs_file) = <<>>
    /\ op' = "uninstall" /\ result' = "empty" /\ trace' = <<>>
    /\ pc' = "returned"
    /\ UNCHANGED <<dir, orig, compatExists, compatAsset, installs_file,
                   install_idx, selected_install, now, faults>>
    /\ UNCHANGED <<iniVars, rankVars, gamesVars, fetchVars, setup, fsr>>

\* installs[install_idx] raises IndexError: "Invalid selection"
MenuUninstallInvalid ==
    /\ pc = "menu"
    /\ load_installations(installs_file) # <<>>
    /\ ValidInputs(Len(load_installations(installs_file))) # MenuInputs
    /\ op' = "uninstall" /\ result' = "invalid" /\ trace' = <<>>
    /\ pc' = "returned"
    /\ UNCHANGED <<dir, orig, compatExists, compatAsset, installs_file,
                   install_idx, selected_install, now, faults>>
    /\ UNCHANGED <<iniVars, rankVars, gamesVars, fetchVars, setup, fsr>>

\* the operator does not confirm: "Uninstall cancelled"
MenuUninstallCancelled ==
    /\ pc = "menu"
    /\ load_installations(installs_file) # <<>>
    /\ ValidInputs(Len(load_installations(installs_file))) # {}
    /\ op' = "uninstall" /\ result' = "cancelled" /\ trace' = <<>>
    /\ pc' = "returned"
    /\ UNCHANGED <<dir, orig, compatExists, compatAsset, installs_file,
                   install_idx, selected_install, now, faults>>
    /\ UNCHANGED <<iniVars, rankVars, gamesVars, fetchVars, setup, fsr>>

\* a variant that removes the asset whatever the record says
RemoveAssetAlways(install_info, asset) == FALSE

\* remove_fsr4_dll_from_compatdata, called when the record says the asset
\* was copied and the compat-data directory resolves
RemoveAsset(install_info, asset) ==
    IF install_info.fsr4_dll_copied /\ compatExists THEN FALSE ELSE asset

AssetStep(install_info) ==
    IF install_info.fsr4_dll_copied /\ compatExists
    THEN <<"asset">> ELSE <<>>

\* uninstall_optiscaler(selected_install) runs to its end and returns True
UninstallOptiscaler ==
    /\ pc = "menu"
    /\ \E n \in ValidInputs(Len(load_installations(installs_file))) :
         LET installs == load_installations(installs_file)
             install_info == installs[PyPos(Len(installs), n - 1)]
             steps == UninstallSteps(install_info)
         IN
         \E launch \in ScriptRuns(dir, removal_scripts) :
             /\ install_idx' = n - 1
             /\ selected_install' = <<install_info>>
             /\ dir' = RunSteps(dir, steps, Len(steps))
             /\ compatAsset' = RemoveAsset(install_info, compatAsset)
             /\ trace' = SetupStep(launch) \o PhasesThrough("restore")
                          \o AssetStep(install_info)
    /\ op' = "uninstall"
    /\ result' = "True"
    /\ pc' = "uninstalled"
    /\ UNCHANGED <<orig, compatExists, installs_file, now, faults>>
    /\ UNCHANGED <<iniVars, rankVars, gamesVars, fetchVars, setup, fsr>>

\* uninstall_optiscaler: the file operation of step f raises (PermissionError,
\* OSError); the exception leaves the function and the menu loop
UninstallRaises ==
    /\ pc = "menu" /\ faults < MaxFaults
    /\ \E n \in ValidInputs(Len(load_installations(installs_file))) :
         LET installs == load_installations(installs_file)
             install_info == installs[PyPos(Len(installs), n - 1)]
             steps == UninstallSteps(install_info)
             states == StepStates(dir, steps, Len(steps))
         IN
         \E f \in 1..Len(steps), launch \in ScriptRuns(dir, removal_scripts) :
             /\ Acts(states[f], steps[f])
             /\ dir' = states[f]
             /\ trace' = SetupStep(launch) \o PhasesThrough(steps[f].phase)
             /\ install_idx' = n - 1
             /\ selected_install' = <<install_info>>
    /\ op' = "uninstall"
    /\ result' = "raised"
    /\ pc' = "raised"
    /\ faults' = faults + 1
    /\ UNCHANGED <<orig, compatExists, compatAsset, installs_file, now>>
    /\ UNCHANGED <<iniVars, rankVars, gamesVars, fetchVars, setup, fsr>>

\* a variant that pops the record from the list in memory and never rewrites
\* the document
MenuRemoveNoDump ==
    /\ pc = "uninstalled"
    /\ pc' = "returned"
    /\ UNCHANGED <<dir, orig, compatExists, compatAsset, installs_file, op, result,
                   trace, install_idx, selected_install, now, faults>>
    /\ UNCHANGED <<iniVars, rankVars, gamesVars, fetchVars, setup, fsr>>

\* main_menu after uninstall_optiscaler returned True: installs.pop(install_idx)
\* and json.dump of what is left
MenuRemove ==
    /\ pc = "uninstalled"
    /\ LET installs == load_installations(installs_file) IN
         installs_file' =
            DumpInstallations(RemoveAt(installs, PyPos(Len(installs), install_idx)))
    /\ pc' = "returned"
    /\ UNCHANGED <<dir, orig, compatExists, compatAsset, op, result, trace,
                   install_idx, selected_install, now, faults>>
    /\ UNCHANGED <<iniVars, rankVars, gamesVars, fetchVars, setup, fsr>>

\* the branch is over: the `while True` loop of main_menu prompts again, and
\* nothing of the last operation but the disk and the ledger is kept
MenuLoop ==
    /\ pc = "returned"
    /\ pc' = "menu"
    /\ op' = "none" /\ result' = "none" /\ trace' = <<>> /\ install_idx' = 0
    /\ selected_install' = <<>>
    /\ UNCHANGED <<dir, orig, compatExists, compatAsset, installs_file, now, faults>>
    /\ UNCHANGED <<iniVars, rankVars, gamesVars, fetchVars, setup, fsr>>

\* an uncaught exception ended the process; the operator starts it again
Restart ==
    /\ pc = "raised"
    /\ pc' = "menu"
    /\ op' = "none" /\ result' = "none" /\ trace' = <<>> /\ install_idx' = 0
    /\ selected_install' = <<>>
    /\ UNCHANGED <<dir, orig, compatExists, compatAsset, installs_file, now, faults>>
    /\ UNCHANGED <<iniVars, rankVars, gamesVars, fetchVars, setup, fsr>>

(***************************************************************************)
(* Spec: the menu loop over one target directory.                          *)
(***************************************************************************)
\* names the game ships itself in the target directory: one that is backed
\* up (an archive overwrites it, the other does not) and one that is not
GameFiles == {"nvngx.dll", "dxgi.dll"}

IniIdle == ini = [exists |-> FALSE, text |-> <<>>] /\ ini0 = ini /\ calls = 0

RankIdle ==
    /\ tree = [game_dir |-> <<>>, files |-> {}]
    /\ todo = {} /\ exe_locations = <<>> /\ rpc = "idle"

GamesIdle ==
    /\ steam = [steam_path |-> "None", vdf |-> <<>>, mounts |-> <<>>]
    /\ manifests = {} /\ game_dirs = {} /\ steam_libraries = <<>>
    /\ gtodo = {} /\ games = <<>> /\ gpc = "idle"

FetchIdle ==
    /\ listing = [error |-> FALSE, releases |-> <<>>]
    /\ download_ok = TRUE /\ fetched = <<"idle">>

SetupIdle == setup = [pc |-> "idle"]

FsrIdle == fsr = [op |-> "idle"]

Init ==
    /\ \E present \in SUBSET GameFiles :
         dir = [x \in present |-> Original]
    /\ orig = dir
    /\ compatExists \in BOOLEAN
    /\ compatAsset = FALSE
    /\ installs_file = [exists |-> FALSE, doc |-> <<>>]
    /\ pc = "menu" /\ op = "none" /\ result = "none" /\ trace = <<>>
    /\ install_idx = 0 /\ selected_install = <<>> /\ now = 0 /\ faults = 0
    /\ IniIdle /\ RankIdle /\ GamesIdle /\ FetchIdle
    /\ SetupIdle /\ FsrIdle

Next ==
    \/ InstallExtractFails
    \/ InstallWineMissing
    \/ InstallCompletes
    \/ MenuUninstallEmpty
    \/ MenuUninstallInvalid
    \/ MenuUninstallCancelled
    \/ UninstallOptiscaler
    \/ UninstallRaises
    \/ MenuRemove
    \/ MenuLoop
    \/ Restart

Spec == Init /\ [][Next]_vars

(***************************************************************************)
(* configure_optiscaler_ini.  The text of OptiScaler.ini is a sequence of  *)
(* symbols: the pieces of text the function tells apart, each standing for *)
(* itself, "x" for any other text (Dx12Upscaler=auto, ...).                *)
(***************************************************************************)
NL == "\n"
Whitespace == {" ", "\t", NL}

\* 'Fsr4Update='
KeyPrefix == <<"Fsr4Update=">>
\* 'Fsr4Update=true\n'
KeyTrueLine == <<"Fsr4Update=", "true", NL>>
\* '[OptiScaler]'
SectionHeader == <<"[", "OptiScaler]">>
\* '\n[OptiScaler]\nFsr4Update=true\n', appended as one element of `lines`
NewSection == <<NL, "[", "OptiScaler]", NL, "Fsr4Update=", "true", NL>>
\* the ini_content written when the file does not exist
DefaultIni ==
    <<"[", "OptiScaler]", NL, "Fsr4Update=", "true", NL, "x", NL, "x", NL,
      "x", NL, "x", NL>>

\* str.startswith
StartsWith(str, prefix) ==
    Len(str) >= Len(prefix) /\ SubSeq(str, 1, Len(prefix)) = prefix

RECURSIVE LStrip(_)
LStrip(str) ==
    IF str # <<>> /\ Head(str) \in Whitespace THEN LStrip(Tail(str)) ELSE str

RECURSIVE RStrip(_)
RStrip(str) ==
    IF str # <<>> /\ str[Len(str)] \in Whitespace
    THEN RStrip(SubSeq(str, 1, Len(str) - 1)) ELSE str

\* str.strip()
Strip(str) == RStrip(LStrip(str))

RECURSIVE ReadLines(_)
\* f.readlines(): the text cut after every newline
ReadLines(text) ==
    IF text = <<>> THEN <<>>
    ELSE LET IsNL(c) == c = NL
             i == FirstIndex(text, IsNL)
         IN IF i = 0 THEN <<text>>
            ELSE <<SubSeq(text, 1, i)>> \o ReadLines(SubSeq(text, i + 1, Len(text)))

RECURSIVE WriteLines(_)
\* f.writelines(lines): the elements one after the other, nothing added
WriteLines(lines) ==
    IF lines = <<>> THEN <<>> ELSE Head(lines) \o WriteLines(Tail(lines))

\* list.insert(pos, x) for a 0-based pos within the list
InsertAt(lines, pos, x) ==
    SubSeq(lines, 1, pos) \o <<x>> \o SubSeq(lines, pos + 1, Len(lines))

\* line.strip().startswith('Fsr4Update=')
IsKeyLine(line) == StartsWith(Strip(line), KeyPrefix)

\* a variant of the first loop without its `break`: every definition of the
\* key is rewritten
RewriteAllKeys(lines) ==
    [i \in 1..Len(lines) |-> IF IsKeyLine(lines[i]) THEN KeyTrueLine ELSE lines[i]]

\* the first loop: the first line that defines the key is rewritten in place
RewriteKey(lines) ==
    LET i == FirstIndex(lines, IsKeyLine)
    IN [lines EXCEPT ![i] = KeyTrueLine]

RECURSIVE InsertKey(_, _, _)
\* the second loop, at 0-based index i: the key goes before the section that
\* follows [OptiScaler], or after the last line when that is inside
\* [OptiScaler]; the `else` of the loop appends a new section
InsertKey(lines, i, in_optiscaler_section) ==
    IF i = Len(lines) THEN Append(lines, NewSection)
    ELSE LET line == lines[i + 1] IN
         IF Strip(line) = SectionHeader THEN InsertKey(lines, i + 1, TRUE)
         ELSE IF in_optiscaler_section
                 /\ (StartsWith(line, <<"[">>) \/ i = Len(lines) - 1)
         THEN InsertAt(lines, IF StartsWith(line, <<"[">>) THEN i ELSE i + 1,
                       KeyTrueLine)
         ELSE InsertKey(lines, i + 1, in_optiscaler_section)

\* configure_optiscaler_ini, applied to the file
configure_optiscaler_ini(file) ==
    IF ~file.exists THEN [exists |-> TRUE, text |-> DefaultIni]
    ELSE LET lines == ReadLines(file.text)
             fsr4_found == \E i \in 1..Len(lines) : IsKeyLine(lines[i])
         IN [exists |-> TRUE,
             text |-> WriteLines(IF fsr4_found THEN RewriteKey(lines)
                                 ELSE InsertKey(lines, 0, FALSE))]

(***************************************************************************)
(* SpecIni: configure_optiscaler_ini called again and again on a document  *)
(* of at most MaxIniLines lines, whose last line may lack its newline.     *)
(***************************************************************************)
\* the lines a starting document is made of, without their newline
LineKinds ==
    { <<"[", "OptiScaler]">>, <<" ", "[", "OptiScaler]">>, <<"[", "Other]">>,
      <<"Fsr4Update=", "false">>, <<"Fsr4Update=", "true">>,
      <<" ", "Fsr4Update=", "false">>, <<"x">>, <<>> }

RECURSIVE DocsOf(_)
\* the texts of exactly n lines, each ended by a newline
DocsOf(n) ==
    IF n = 0 THEN {<<>>}
    ELSE {d \o l \o <<NL>> : d \in DocsOf(n - 1), l \in LineKinds}

\* the starting texts: every line ended, or the last one not
StartTexts ==
    LET ended == UNION {DocsOf(n) : n \in 0..MaxIniLines}
    IN ended \cup {SubSeq(d, 1, Len(d) - 1) : d \in ended \ {<<>>}}

MainIdle ==
    /\ dir = <<>> /\ orig = dir /\ compatExists = FALSE /\ compatAsset = FALSE
    /\ installs_file = [exists |-> FALSE, doc |-> <<>>]
    /\ pc = "menu" /\ op = "none" /\ result = "none" /\ trace = <<>>
    /\ install_idx = 0 /\ selected_install = <<>> /\ now = 0 /\ faults = 0

InitIni ==
    /\ \/ ini = [exists |-> FALSE, text |-> <<>>]
       \/ \E t \in StartTexts : ini = [exists |-> TRUE, text |-> t]
    /\ ini0 = ini
    /\ calls = 0
    /\ MainIdle /\ RankIdle /\ GamesIdle /\ FetchIdle
    /\ SetupIdle /\ FsrIdle

\* one call of configure_optiscaler_ini(install_dir)
ConfigureIni ==
    /\ calls < MaxCalls
    /\ ini' = configure_optiscaler_ini(ini)
    /\ calls' = calls + 1
    /\ UNCHANGED <<ini0, mainVars, rankVars, gamesVars, fetchVars, setup, fsr>>

NextIni == ConfigureIni

SpecIni == InitIni /\ [][NextIni]_vars

\* the lines of a text that read 'Fsr4Update=true' once stripped
TrueLines(text) ==
    LET lines == ReadLines(text)
    IN {i \in 1..Len(lines) : Strip(lines[i]) = <<"Fsr4Update=", "true">>}

\* the lines of a text that define the key and stand in an [OptiScaler]
\* section: the last section header above them is [OptiScaler]
KeyLinesInSection(text) ==
    LET lines == ReadLines(text)
        IsHeader(j) == StartsWith(Strip(lines[j]), <<"[">>)
    IN {i \in 1..Len(lines) :
          /\ IsKeyLine(lines[i])
          /\ \E j \in 1..(i - 1) :
                /\ Strip(lines[j]) = SectionHeader
                /\ \A k \in (j + 1)..(i - 1) : ~IsHeader(k)}

\* the lines of a text that define the key
KeyLines(text) ==
    LET lines == ReadLines(text) IN {i \in 1..Len(lines) : IsKeyLine(lines[i])}

\* C7: two calls of configure_optiscaler_ini in a row leave exactly one line
\* Fsr4Update=true, from each starting state the claim lists: no file, a
\* file without the key, a file with the key set false, a file with only an
\* unrelated section (none of them holds a line Fsr4Update=true).
C7_ConfigureTwiceOneTrueLine ==
    (calls >= 2 /\ (ini0.exists => TrueLines(ini0.text) = {})) =>
        Cardinality(TrueLines(ini.text)) = 1

\* C7 witness: two calls on a file that set the key to false twice
C7_Witness ==
    /\ calls = 2 /\ ini0.exists
    /\ Cardinality(KeyLines(ini0.text)) = 2 /\ TrueLines(ini0.text) = {}

\* C8: after configure_optiscaler_ini on an existing document, the
\* [OptiScaler] section holds exactly one line that defines Fsr4Update, and
\* that line sets it to true.  Stated for the documents whose definitions of
\* the key, if any, are one line inside [OptiScaler].
C8_SectionHoldsKeyOnce ==
    (/\ calls = 1 /\ ini0.exists
     /\ Cardinality(KeyLines(ini0.text)) <= 1
     /\ KeyLines(ini0.text) = KeyLinesInSection(ini0.text)) =>
        /\ Cardinality(KeyLinesInSection(ini.text)) = 1
        /\ KeyLinesInSection(ini.text) \subseteq TrueLines(ini.text)
        /\ Cardinality(KeyLines(ini.text)) = 1

\* a line without the newline that ends it
LineText(line) ==
    IF line # <<>> /\ line[Len(line)] = NL THEN SubSeq(line, 1, Len(line) - 1)
    ELSE line

RECURSIVE IsSubsequence(_, _)
\* the elements of a are elements of b, in the same order
IsSubsequence(a, b) ==
    IF a = <<>> THEN TRUE
    ELSE IF b = <<>> THEN FALSE
    ELSE IF Head(a) = Head(b) THEN IsSubsequence(Tail(a), Tail(b))
    ELSE IsSubsequence(a, Tail(b))

\* the lines of a text, without their newlines, but for the first line
\* that defines the key
OtherLines(text) ==
    LET lines == ReadLines(text)
        k == FirstIndex(lines, IsKeyLine)
        kept == IF k = 0 THEN lines ELSE RemoveAt(lines, k)
    IN [i \in 1..Len(kept) |-> LineText(kept[i])]

\* C20: configure_optiscaler_ini leaves every line of an existing document
\* other than the line that defines Fsr4Update as it was and in the same
\* relative order, also when the key is inserted after a last line that has
\* no newline.
C20_OtherLinesUnchanged ==
    (calls = 1 /\ ini0.exists) =>
        LET lines == ReadLines(ini.text)
        IN IsSubsequence(OtherLines(ini0.text),
                         [i \in 1..Len(lines) |-> LineText(lines[i])])

(***************************************************************************)
(* find_game_executable_paths.  Paths and file names are strings the       *)
(* function searches and compares character by character, so they are      *)
(* sequences of one-character strings here.                                *)
(***************************************************************************)
\* the characters of the paths, in the order of their code points
Chars ==
    <<"-", ".", "/", "0", "1", "2", "3", "4", "5", "6", "7", "8", "9",
      "A", "B", "C", "D", "E", "F", "G", "H", "I", "J", "K", "L", "M",
      "N", "O", "P", "Q", "R", "S", "T", "U", "V", "W", "X", "Y", "Z",
      "_", "a", "b", "c", "d", "e", "f", "g", "h", "i", "j", "k", "l",
      "m", "n", "o", "p", "q", "r", "s", "t", "u", "v", "w", "x", "y",
      "z">>

UpperCase ==
    <<"A", "B", "C", "D", "E", "F", "G", "H", "I", "J", "K", "L", "M",
      "N", "O", "P", "Q", "R", "S", "T", "U", "V", "W", "X", "Y",
      "Z">>

LowerCase ==
    <<"a", "b", "c", "d", "e", "f", "g", "h", "i", "j", "k", "l", "m",
      "n", "o", "p", "q", "r", "s", "t", "u", "v", "w", "x", "y",
      "z">>

\* the rank of a character among Chars: the order ord() gives
Ord(c) == CHOOSE i \in 1..Len(Chars) : Chars[i] = c

\* str.lower()
Lower(str) ==
    [i \in 1..Len(str) |->
        IF \E k \in 1..Len(UpperCase) : UpperCase[k] = str[i]
        THEN LowerCase[CHOOSE k \in 1..Len(UpperCase) : UpperCase[k] = str[i]]
        ELSE str[i]]

\* sub in str
Contains(str, sub) ==
    \E i \in 0..(Len(str) - Len(sub)) : SubSeq(str, i + 1, i + Len(sub)) = sub

\* a < b on Python strings
StrLess(a, b) ==
    \E i \in 1..Len(b) :
        /\ \A k \in 1..(i - 1) : k <= Len(a) /\ a[k] = b[k]
        /\ (i > Len(a) \/ (i <= Len(a) /\ Ord(a[i]) < Ord(b[i])))

RECURSIVE PathStr(_)
\* str(path) of an absolute path given by its components
PathStr(parts) ==
    IF parts = <<>> THEN <<>> ELSE <<"/">> \o Head(parts) \o PathStr(Tail(parts))

\* str(path.relative_to(game_dir)) of the components below game_dir
RelativeStr(parts) ==
    IF parts = <<>> THEN <<".">> ELSE Tail(PathStr(parts))

\* len(Path(path_str).parts): the anchor and one part per component
NumParts(path_str) ==
    Cardinality({i \in 1..(Len(path_str) - 1) : path_str[i] = "/"}) + 1

skip_paths ==
    << <<"e", "n", "g", "i", "n", "e">>,
       <<"r", "e", "d", "i", "s", "t">>,
       <<"d", "i", "r", "e", "c", "t", "x">>,
       <<"v", "c", "r", "e", "d", "i", "s", "t">>,
       <<"_", "c", "o", "m", "m", "o", "n", "r", "e", "d", "i", "s", "t">>,
       <<"t", "o", "o", "l", "s">>,
       <<"c", "r", "a", "s", "h">> >>

skip_names ==
    << <<"u", "n", "i", "n", "s">>,
       <<"s", "e", "t", "u", "p">>,
       <<"l", "a", "u", "n", "c", "h", "e", "r">>,
       <<"r", "e", "d", "i", "s", "t">>,
       <<"v", "c", "r", "e", "d", "i", "s", "t">>,
       <<"d", "i", "r", "e", "c", "t", "x">>,
       <<"c", "r", "a", "s", "h">> >>

\* the folders of a "Common Game Folder"
common_folders ==
    << <<"b", "i", "n", "/", "x", "6", "4">>,
       <<"r", "e", "t", "a", "i", "l">>,
       <<"b", "i", "n", "a", "r", "i", "e", "s", "/", "w", "i", "n", "6", "4">> >>

shipping_marker == <<"_", "s", "h", "i", "p", "p", "i", "n", "g">>

engine_tags == << <<"u", "e", "4">>, <<"u", "e", "5">> >>

AnyIn(markers, str) == \E k \in 1..Len(markers) : Contains(str, markers[k])

\* the exclusion test of lines 245-251 and the `continue` of lines 263-264:
\* the executable contributes no candidate
Skipped(game_dir, exe_file) ==
    LET parent == game_dir \o exe_file.parent
        path_str == Lower(PathStr(parent))
        name_str == Lower(exe_file.name)
    IN \/ AnyIn(skip_paths, path_str)
       \/ AnyIn(skip_names, name_str)
       \/ /\ parent # game_dir
          /\ ~Contains(name_str, shipping_marker)
          /\ ~AnyIn(common_folders, path_str)
          /\ AnyIn(engine_tags, name_str)

\* exe_type and priority of an executable that is not skipped
Classify(game_dir, exe_file) ==
    LET parent == game_dir \o exe_file.parent
        name_str == Lower(exe_file.name)
    IN IF parent = game_dir
       THEN [type |-> "Main Game Directory", priority |-> 1]
       ELSE IF Contains(name_str, shipping_marker)
       THEN [type |-> "Shipping Executable (UE)", priority |-> 1]
       ELSE IF AnyIn(common_folders, Lower(PathStr(parent)))
       THEN [type |-> "Common Game Folder", priority |-> 2]
       ELSE [type |-> "Other", priority |-> 3]

LocationInfo(game_dir, exe_file) ==
    LET c == Classify(game_dir, exe_file)
    IN [path |-> PathStr(game_dir \o exe_file.parent),
        exe_name |-> exe_file.name,
        type |-> c.type,
        priority |-> c.priority,
        relative_path |-> RelativeStr(exe_file.parent)]

\* a variant of the update of lines 272-277 that appends every candidate
AppendAlways(locs, location_info) == Append(locs, location_info)

\* lines 272-277: one candidate per path, replaced in place by a candidate
\* of lower priority value
AddLocation(locs, location_info) ==
    LET SamePath(loc) == loc.path = location_info.path
        e == FirstIndex(locs, SamePath)
    IN IF e = 0 THEN Append(locs, location_info)
       ELSE IF location_info.priority < locs[e].priority
       THEN [locs EXCEPT ![e] = location_info]
       ELSE locs

\* a variant of the sort key without the path depth
KeyWithoutDepth(a, b) ==
    \/ a.priority < b.priority
    \/ a.priority = b.priority /\ StrLess(a.path, b.path)

\* the order of the sort key (priority, len(Path(path).parts), path)
KeyLess(a, b) ==
    \/ a.priority < b.priority
    \/ /\ a.priority = b.priority
       /\ \/ NumParts(a.path) < NumParts(b.path)
          \/ NumParts(a.path) = NumParts(b.path) /\ StrLess(a.path, b.path)

RECURSIVE SortLocations(_)
\* list.sort(key=...): stable, an element stays behind the elements before
\* it whose key is not greater
SortLocations(locs) ==
    IF locs = <<>> THEN <<>>
    ELSE LET n == Len(locs)
             front == SortLocations(SubSeq(locs, 1, n - 1))
             x == locs[n]
             Greater(y) == KeyLess(x, y)
             j == FirstIndex(front, Greater)
         IN IF j = 0 THEN Append(front, x)
            ELSE SubSeq(front, 1, j - 1) \o <<x>> \o SubSeq(front, j, Len(front))

(***************************************************************************)
(* SpecRank: find_game_executable_paths on a tree of at most MaxFiles      *)
(* executables, walked in any order.                                       *)
(***************************************************************************)
\* game_path: a library folder and the game's folder in it
GameDirs ==
    { <<<<"s">>, <<"G", "a", "m", "e">>>>,
      <<<<"s">>, <<"T", "o", "o", "l", "s">>>> }

\* the *.exe files a tree is made of: the directory below game_dir and the
\* file name
ExeFiles ==
    { [parent |-> <<>>,
       name |-> <<"G", "a", "m", "e", ".", "e", "x", "e">>],
      [parent |-> <<>>,
       name |-> <<"U", "E", "4", "G", "a", "m", "e", ".", "e", "x", "e">>],
      [parent |-> <<<<"B", "i", "n", "a", "r", "i", "e", "s">>, <<"W", "i", "n", "6", "4">>>>,
       name |-> <<"G", "a", "m", "e", "-", "W", "i", "n", "6", "4", "-", "S", "h", "i", "p", "p", "i", "n", "g", ".", "e", "x", "e">>],
      [parent |-> <<<<"B", "i", "n", "a", "r", "i", "e", "s">>, <<"W", "i", "n", "6", "4">>>>,
       name |-> <<"G", "a", "m", "e", "_", "S", "h", "i", "p", "p", "i", "n", "g", ".", "e", "x", "e">>],
      [parent |-> <<<<"E", "n", "g", "i", "n", "e">>>>,
       name |-> <<"T", "o", "o", "l", ".", "e", "x", "e">>],
      [parent |-> <<<<"b", "i", "n">>>>,
       name |-> <<"S", "e", "t", "u", "p", ".", "e", "x", "e">>],
      [parent |-> <<<<"b", "i", "n">>>>,
       name |-> <<"O", "t", "h", "e", "r", ".", "e", "x", "e">>],
      [parent |-> <<<<"b", "i", "n">>>>,
       name |-> <<"P", "l", "a", "y", "_", "S", "h", "i", "p", "p", "i", "n", "g", ".", "e", "x", "e">>],
      [parent |-> <<<<"b", "i", "n">>>>,
       name |-> <<"U", "E", "5", ".", "e", "x", "e">>],
      [parent |-> <<<<"Z", "e", "d">>>>,
       name |-> <<"R", "u", "n", ".", "e", "x", "e">>],
      [parent |-> <<<<"Z", "e", "d">>, <<"d", "a", "t", "a">>>>,
       name |-> <<"R", "u", "n", ".", "e", "x", "e">>] }

InitRank ==
    /\ \E g \in GameDirs, fs \in SUBSET ExeFiles :
          /\ Cardinality(fs) <= MaxFiles
          /\ tree = [game_dir |-> g, files |-> fs]
    /\ todo = tree.files
    /\ exe_locations = <<>>
    /\ rpc = "walk"
    /\ MainIdle /\ IniIdle /\ GamesIdle /\ FetchIdle
    /\ SetupIdle /\ FsrIdle

\* one turn of the loop over game_dir.rglob("*.exe"), in the order the
\* file system yields the files
VisitExe ==
    /\ rpc = "walk"
    /\ \E exe_file \in todo :
          /\ todo' = todo \ {exe_file}
          /\ exe_locations' =
                IF Skipped(tree.game_dir, exe_file) THEN exe_locations
                ELSE AddLocation(exe_locations,
                                 LocationInfo(tree.game_dir, exe_file))
    /\ UNCHANGED <<tree, rpc, mainVars, iniVars, gamesVars, fetchVars, setup, fsr>>

\* the loop is over: sort and return
SortAndReturn ==
    /\ rpc = "walk" /\ todo = {}
    /\ exe_locations' = SortLocations(exe_locations)
    /\ rpc' = "done"
    /\ UNCHANGED <<tree, todo, mainVars, iniVars, gamesVars, fetchVars, setup, fsr>>

NextRank == VisitExe \/ SortAndReturn

SpecRank == InitRank /\ [][NextRank]_vars

\* the candidates of the executables of a directory that are not skipped
CandidatesAt(path) ==
    {LocationInfo(tree.game_dir, f) :
        f \in {x \in tree.files : /\ ~Skipped(tree.game_dir, x)
                                  /\ PathStr(tree.game_dir \o x.parent) = path}}

\* C9: the returned list never holds two candidates with the same path, and
\* the candidate kept for a path has the least priority value among the
\* executables of that directory that are not excluded.
C9_OnePerPathMinPriority ==
    rpc = "done" =>
        /\ \A i, j \in 1..Len(exe_locations) :
              exe_locations[i].path = exe_locations[j].path => i = j
        /\ \A i \in 1..Len(exe_locations) :
              \A c \in CandidatesAt(exe_locations[i].path) :
                  exe_locations[i].priority <= c.priority
        /\ \A f \in tree.files :
              ~Skipped(tree.game_dir, f) =>
                  \E i \in 1..Len(exe_locations) :
                      exe_locations[i].path = PathStr(tree.game_dir \o f.parent)

\* C9 witness: a directory of the tree holds executables of different
\* priority and the list has been returned
C9_Witness ==
    /\ rpc = "done"
    /\ \E i \in 1..Len(exe_locations) :
          \E c \in CandidatesAt(exe_locations[i].path) :
              c.priority > exe_locations[i].priority

\* C10: the returned list is sorted by priority ascending, then by the
\* number of components of the path ascending, then by the path string.
C10_SortedByPriorityDepthPath ==
    rpc = "done" =>
        \A i, j \in 1..Len(exe_locations) :
            i < j =>
                LET a == exe_locations[i]
                    b == exe_locations[j]
                IN \/ a.priority < b.priority
                   \/ /\ a.priority = b.priority
                      /\ NumParts(a.path) < NumParts(b.path)
                   \/ /\ a.priority = b.priority
                      /\ NumParts(a.path) = NumParts(b.path)
                      /\ StrLess(a.path, b.path)

\* C10 witness: the returned list holds a pair ordered by priority, a pair
\* of equal priority ordered by depth, and a pair of equal priority and
\* depth ordered by path string
C10_Witness ==
    /\ rpc = "done"
    /\ \E i, j \in 1..Len(exe_locations) :
          /\ i < j
          /\ exe_locations[i].priority = exe_locations[j].priority
          /\ NumParts(exe_locations[i].path) < NumParts(exe_locations[j].path)
    /\ \E i, j \in 1..Len(exe_locations) :
          /\ i < j
          /\ exe_locations[i].priority = exe_locations[j].priority
          /\ NumParts(exe_locations[i].path) = NumParts(exe_locations[j].path)

RECURSIVE WalkIn(_, _)
\* the loop of lines 242-277 over the files in the order of a sequence
WalkIn(game_dir, order) ==
    IF order = <<>> THEN <<>>
    ELSE LET n == Len(order)
             locs == WalkIn(game_dir, SubSeq(order, 1, n - 1))
         IN IF Skipped(game_dir, order[n]) THEN locs
            ELSE AddLocation(locs, LocationInfo(game_dir, order[n]))

\* what find_game_executable_paths returns when rglob yields the files in
\* the order of a sequence
find_game_executable_paths(game_dir, order) ==
    SortLocations(WalkIn(game_dir, order))

\* the orders in which rglob may yield the files of a tree
WalkOrders(files) ==
    {o \in [1..Cardinality(files) -> files] :
        \A i, j \in 1..Cardinality(files) : o[i] = o[j] => i = j}

\* C11: the list returned for a tree is the same, field by field, for every
\* order in which the walk may yield the executables of that tree.
C11_SameResultForEveryWalkOrder ==
    rpc = "done" =>
        \A o \in WalkOrders(tree.files) :
            find_game_executable_paths(tree.game_dir, o) = exe_locations

\* C12: for a game root that holds Game.exe and
\* Binaries/Win64/Game-Win64-Shipping.exe the returned list is the root
\* candidate, Main Game Directory with priority 1, followed by the
\* Binaries/Win64 candidate, Shipping Executable with priority 1.
C12_ShippingScenario ==
    (/\ rpc = "done"
     /\ tree.game_dir = <<<<"s">>, <<"G", "a", "m", "e">>>>
     /\ tree.files =
          { [parent |-> <<>>, name |-> <<"G", "a", "m", "e", ".", "e", "x", "e">>],
            [parent |-> <<<<"B", "i", "n", "a", "r", "i", "e", "s">>,
                          <<"W", "i", "n", "6", "4">>>>,
             name |-> <<"G", "a", "m", "e", "-", "W", "i", "n", "6", "4", "-",
                        "S", "h", "i", "p", "p", "i", "n", "g", ".", "e", "x",
                        "e">>] }) =>
        /\ Len(exe_locations) = 2
        /\ exe_locations[1].type = "Main Game Directory"
        /\ exe_locations[1].priority = 1
        /\ exe_locations[1].relative_path = <<".">>
        /\ exe_locations[2].type = "Shipping Executable (UE)"
        /\ exe_locations[2].priority = 1

\* C18: no returned candidate has an exe_name that contains ue4 or ue5,
\* whatever the case of its letters and wherever the executable sits.
C18_NoEngineTagReturned ==
    rpc = "done" =>
        \A i \in 1..Len(exe_locations) :
            ~AnyIn(engine_tags, Lower(exe_locations[i].exe_name))

(***************************************************************************)
(* get_steam_games.  A manifest is the list of its lines, a line a         *)
(* sequence of pieces of text: the double quote, the white space and the   *)
(* texts between them.                                                     *)
(***************************************************************************)
Quote == "\""

RECURSIVE Split(_, _)
\* str.split(sep) for a separator of one piece
Split(str, sep) ==
    LET IsSep(c) == c = sep
        i == FirstIndex(str, IsSep)
    IN IF i = 0 THEN <<str>>
       ELSE <<SubSeq(str, 1, i - 1)>> \o Split(SubSeq(str, i + 1, Len(str)), sep)

\* a line '\t"key"\t\t"value"' of a manifest
KeyValue(key, value) ==
    <<"\t", Quote, key, Quote, "\t\t", Quote, value, Quote>>

RECURSIVE ScanManifest(_, _)
\* the loop of lines 194-201 over the lines of a manifest, from the values
\* found so far; line.split('"')[3] raises IndexError on a line with fewer
\* than four pieces
ScanManifest(lines, found) ==
    IF lines = <<>> \/ found.raised THEN found
    ELSE LET line == Strip(Head(lines))
             pieces == Split(line, Quote)
             Key(k) == StartsWith(line, <<Quote, k, Quote>>)
             key == IF Key("appid") THEN "app_id"
                    ELSE IF Key("name") THEN "name"
                    ELSE IF Key("installdir") THEN "install_dir"
                    ELSE "none"
         IN IF key = "none" THEN ScanManifest(Tail(lines), found)
            ELSE IF Len(pieces) < 4 THEN [found EXCEPT !.raised = TRUE]
            ELSE ScanManifest(Tail(lines), [found EXCEPT ![key] = pieces[4]])

\* lines 188-201: the three values of a manifest file, <<>> for a value
\* that is None or empty; raised when the file cannot be read or a line
\* cannot be split
ParseManifest(manifest_file) ==
    LET nothing == [raised |-> FALSE, app_id |-> <<>>, name |-> <<>>,
                    install_dir |-> <<>>]
    IN IF ~manifest_file.readable THEN [nothing EXCEPT !.raised = TRUE]
       ELSE ScanManifest(manifest_file.lines, nothing)

\* steamapps_path / "common" / install_dir
GamePath(library_path, install_dir) ==
    <<library_path, "steamapps", "common">> \o install_dir

\* path.exists() of an install directory
PathExists(dirs, path) == \E d \in dirs : d.path = path

\* Path(path).stat().st_mtime of an existing install directory
Mtime(dirs, path) == (CHOOSE d \in dirs : d.path = path).st_mtime

\* line 202: the manifest was read and holds the three values
Complete(manifest_file) ==
    LET m == ParseManifest(manifest_file)
    IN /\ ~m.raised
       /\ m.app_id # <<>> /\ m.name # <<>> /\ m.install_dir # <<>>

\* a variant of Accepted without the test of line 204
AcceptedUnchecked(dirs, manifest_file) == Complete(manifest_file)

\* lines 202-204: the manifest yields a record
Accepted(dirs, manifest_file) ==
    /\ Complete(manifest_file)
    /\ PathExists(dirs, GamePath(manifest_file.library,
                                 ParseManifest(manifest_file).install_dir))

GameRecord(manifest_file) ==
    LET m == ParseManifest(manifest_file)
    IN [app_id |-> m.app_id,
        name |-> m.name,
        install_dir |-> m.install_dir,
        path |-> GamePath(manifest_file.library, m.install_dir),
        library_path |-> manifest_file.library]

\* a variant of the comparison of line 218 that keeps the older directory
Older(current_mtime, existing_mtime) == current_mtime < existing_mtime

\* line 218
Newer(current_mtime, existing_mtime) == current_mtime > existing_mtime

\* a variant of the `except` of lines 231-232 that gives up the records
\* found so far
AddGameDropOnError(dirs, list, manifest_file) ==
    IF ParseManifest(manifest_file).raised THEN <<>>
    ELSE IF ~Accepted(dirs, manifest_file) THEN list
    ELSE LET game == GameRecord(manifest_file)
             SameApp(g) == g.app_id = game.app_id
             e == FirstIndex(list, SameApp)
         IN IF e = 0 THEN Append(list, game)
            ELSE IF Newer(Mtime(dirs, game.path), Mtime(dirs, list[e].path))
            THEN [list EXCEPT ![e] = game]
            ELSE list

\* lines 188-232: one record per app_id, replaced in place by the record of
\* a more recently modified install directory; a manifest that cannot be
\* read or parsed changes nothing
AddGame(dirs, list, manifest_file) ==
    IF ~Accepted(dirs, manifest_file) THEN list
    ELSE LET game == GameRecord(manifest_file)
             SameApp(g) == g.app_id = game.app_id
             e == FirstIndex(list, SameApp)
         IN IF e = 0 THEN Append(list, game)
            ELSE IF Newer(Mtime(dirs, game.path), Mtime(dirs, list[e].path))
            THEN [list EXCEPT ![e] = game]
            ELSE list

\* the names of the games of the model, in the order of Python's string
\* comparison
NameOrder == << <<"Counter-Strike">>, <<"Team Fortress 2">> >>

NameLess(a, b) ==
    LET Rank(n) == CHOOSE i \in 1..Len(NameOrder) : NameOrder[i] = n
    IN Rank(a.name) < Rank(b.name)

RECURSIVE SortGames(_)
\* sorted(games, key=lambda x: x["name"]), a stable sort
SortGames(list) ==
    IF list = <<>> THEN <<>>
    ELSE LET n == Len(list)
             front == SortGames(SubSeq(list, 1, n - 1))
             x == list[n]
             Greater(y) == NameLess(x, y)
             j == FirstIndex(front, Greater)
         IN IF j = 0 THEN Append(front, x)
            ELSE SubSeq(front, 1, j - 1) \o <<x>> \o SubSeq(front, j, Len(front))

RECURSIVE AppendNew(_, _)
\* lines 44-47 and 52-54: the libraries of a list that are not known yet
AppendNew(libraries, more) ==
    IF more = <<>> THEN libraries
    ELSE AppendNew(IF Head(more) \in Range(libraries) THEN libraries
                   ELSE Append(libraries, Head(more)),
                   Tail(more))

\* find_all_steam_libraries: the Steam root and the libraries of
\* libraryfolders.vdf when a root was located, then the libraries the scan
\* of the mounted file systems found
find_all_steam_libraries(st) ==
    AppendNew(IF st.steam_path # "None"
              THEN AppendNew(<<st.steam_path>>, st.vdf)
              ELSE <<>>,
              st.mounts)

(***************************************************************************)
(* SpecGames: get_steam_games over a Steam root, one more library and at   *)
(* most MaxManifests manifest files, read in any order inside a library.   *)
(***************************************************************************)
SteamRoot == "/home/u/.steam/steam"
OtherLibrary == "/mnt/games/SteamLibrary"

\* where the libraries are found: the Steam root located or not, the paths
\* of libraryfolders.vdf, the result of _scan_all_drives_for_steam
SteamConfigs ==
    { [steam_path |-> SteamRoot, vdf |-> <<OtherLibrary>>,
       mounts |-> <<SteamRoot, OtherLibrary>>],
      [steam_path |-> SteamRoot, vdf |-> <<>>, mounts |-> <<OtherLibrary>>],
      [steam_path |-> SteamRoot, vdf |-> <<>>, mounts |-> <<>>],
      [steam_path |-> "None", vdf |-> <<>>, mounts |-> <<OtherLibrary>>] }

\* the manifest files a library may hold
ManifestKinds ==
    { [file |-> "appmanifest_440.acf", readable |-> TRUE,
       lines |-> << <<Quote, "AppState", Quote>>, <<"{">>,
                    KeyValue("appid", "440"),
                    KeyValue("name", "Team Fortress 2"),
                    KeyValue("installdir", "Team Fortress 2"), <<"}">> >>],
      [file |-> "appmanifest_10.acf", readable |-> TRUE,
       lines |-> << KeyValue("appid", "10"),
                    KeyValue("name", "Counter-Strike"),
                    KeyValue("installdir", "cs") >>],
      [file |-> "appmanifest_20.acf", readable |-> TRUE,
       lines |-> << KeyValue("appid", "20"),
                    KeyValue("installdir", "hl") >>],
      [file |-> "appmanifest_30.acf", readable |-> TRUE,
       lines |-> << <<"\t", Quote, "appid", Quote, "\t\t", "30">>,
                    KeyValue("name", "Counter-Strike"),
                    KeyValue("installdir", "cs") >>],
      [file |-> "appmanifest_40.acf", readable |-> FALSE, lines |-> <<>>] }

ManifestFiles ==
    {[library |-> l, file |-> k.file, readable |-> k.readable, lines |-> k.lines] :
        l \in {SteamRoot, OtherLibrary}, k \in ManifestKinds}

\* the install directories the manifests of a set name
NamedPaths(ms) ==
    {GamePath(m.library, ParseManifest(m).install_dir) :
        m \in {x \in ms : Complete(x)}}

InitGames ==
    /\ steam \in SteamConfigs
    /\ \E ms \in SUBSET ManifestFiles :
          /\ Cardinality(ms) <= MaxManifests
          /\ manifests = ms
          /\ \E t \in [NamedPaths(ms) -> 0..MaxMtime] :
                game_dirs = {[path |-> q, st_mtime |-> t[q]] :
                                q \in {x \in NamedPaths(ms) : t[x] > 0}}
    /\ steam_libraries = <<>> /\ gtodo = {} /\ games = <<>>
    /\ gpc = "start"
    /\ MainIdle /\ IniIdle /\ RankIdle /\ FetchIdle
    /\ SetupIdle /\ FsrIdle

\* the manifests safe_case_insensitive_glob finds in a library
ManifestsOf(library_path) == {m \in manifests : m.library = library_path}

\* lines 175-177: no Steam root was located
GetGamesNoSteam ==
    /\ gpc = "start" /\ steam.steam_path = "None"
    /\ games' = <<>>
    /\ gpc' = "done"
    /\ UNCHANGED <<steam, manifests, game_dirs, steam_libraries, gtodo>>
    /\ UNCHANGED <<mainVars, iniVars, rankVars, fetchVars, setup, fsr>>

\* lines 178-186: the libraries, and the manifests of the first one
GetGamesStart ==
    /\ gpc = "start" /\ steam.steam_path # "None"
    /\ steam_libraries' = find_all_steam_libraries(steam)
    /\ gtodo' = ManifestsOf(Head(steam_libraries'))
    /\ gpc' = "scan"
    /\ UNCHANGED <<steam, manifests, game_dirs, games>>
    /\ UNCHANGED <<mainVars, iniVars, rankVars, fetchVars, setup, fsr>>

\* one turn of the loop over manifest_files, which come in no fixed order
ReadManifest ==
    /\ gpc = "scan"
    /\ \E manifest_file \in gtodo :
          /\ gtodo' = gtodo \ {manifest_file}
          /\ games' = AddGame(game_dirs, games, manifest_file)
    /\ UNCHANGED <<steam, manifests, game_dirs, steam_libraries, gpc>>
    /\ UNCHANGED <<mainVars, iniVars, rankVars, fetchVars, setup, fsr>>

\* the next turn of the loop over steam_libraries
NextLibrary ==
    /\ gpc = "scan" /\ gtodo = {} /\ Len(steam_libraries) > 1
    /\ steam_libraries' = Tail(steam_libraries)
    /\ gtodo' = ManifestsOf(Head(steam_libraries'))
    /\ UNCHANGED <<steam, manifests, game_dirs, games, gpc>>
    /\ UNCHANGED <<mainVars, iniVars, rankVars, fetchVars, setup, fsr>>

\* lines 233-234: the last library is done, sort and return
ReturnGames ==
    /\ gpc = "scan" /\ gtodo = {} /\ Len(steam_libraries) = 1
    /\ games' = SortGames(games)
    /\ steam_libraries' = <<>>
    /\ gpc' = "done"
    /\ UNCHANGED <<steam, manifests, game_dirs, gtodo>>
    /\ UNCHANGED <<mainVars, iniVars, rankVars, fetchVars, setup, fsr>>

NextGames ==
    GetGamesNoSteam \/ GetGamesStart \/ ReadManifest \/ NextLibrary \/ ReturnGames

SpecGames == InitGames /\ [][NextGames]_vars

\* the manifests of the libraries find_all_steam_libraries returns
FoundManifests ==
    {m \in manifests : m.library \in Range(find_all_steam_libraries(steam))}

\* the manifests among them that yield a record
ValidManifests == {m \in FoundManifests : Accepted(game_dirs, m)}

\* C13: the result holds exactly one record per app_id of the accepted
\* manifests, and the record of an app_id found in several libraries is the
\* one whose install directory was modified last.
C13_OneRecordPerAppNewestKept ==
    (gpc = "done" /\ steam.steam_path # "None") =>
        /\ \A i, j \in 1..Len(games) : games[i].app_id = games[j].app_id => i = j
        /\ \A m \in ValidManifests :
              \E i \in 1..Len(games) :
                  /\ games[i].app_id = GameRecord(m).app_id
                  /\ Mtime(game_dirs, games[i].path)
                        >= Mtime(game_dirs, GameRecord(m).path)
        /\ \A i \in 1..Len(games) :
              \E m \in ValidManifests : games[i] = GameRecord(m)

\* C13 witness: an app_id installed in both libraries, the directory of the
\* second library being the newer one
C13_Witness ==
    /\ gpc = "done" /\ Len(games) = 1
    /\ games[1].library_path = OtherLibrary
    /\ \E m \in ValidManifests :
          /\ m.library = SteamRoot
          /\ GameRecord(m).app_id = games[1].app_id
          /\ Mtime(game_dirs, GameRecord(m).path) < Mtime(game_dirs, games[1].path)

\* C15: a record is returned only for a manifest that holds appid, name and
\* installdir and whose <library>/steamapps/common/<installdir> exists, and
\* the manifest of Team Fortress 2 (appid 440) in a library where that
\* directory exists yields one record with app_id "440".
C15_OnlyCompleteManifestsAccepted ==
    (gpc = "done" /\ steam.steam_path # "None") =>
        /\ \A i \in 1..Len(games) :
              /\ PathExists(game_dirs, games[i].path)
              /\ \E m \in FoundManifests :
                    /\ games[i] = GameRecord(m)
                    /\ \A k \in {"appid", "name", "installdir"} :
                          \E n \in 1..Len(m.lines) :
                             StartsWith(Strip(m.lines[n]), <<Quote, k, Quote>>)
        /\ (\E m \in ValidManifests : m.file = "appmanifest_440.acf") =>
              Cardinality({i \in 1..Len(games) : games[i].app_id = <<"440">>}) = 1

\* C15 witness: the manifest of Team Fortress 2 next to a manifest without
\* a name and one whose directory does not exist
C15_Witness ==
    /\ gpc = "done" /\ Len(games) = 1
    /\ games[1].app_id = <<"440">>
    /\ games[1].name = <<"Team Fortress 2">>
    /\ \E m \in FoundManifests : m.file = "appmanifest_20.acf"
    /\ \E m \in FoundManifests :
          m.file = "appmanifest_10.acf" /\ ~Accepted(game_dirs, m)

\* C16: a manifest that cannot be read or parsed does not end the
\* enumeration: the app_id of every valid manifest of the same and of the
\* later libraries is in the result.
C16_BadManifestSkipped ==
    (/\ gpc = "done" /\ steam.steam_path # "None"
     /\ \E m \in FoundManifests : ParseManifest(m).raised) =>
        \A m \in ValidManifests :
            \E i \in 1..Len(games) : games[i].app_id = GameRecord(m).app_id

\* C16 witness: an unreadable and an unparsable manifest in the Steam root,
\* a valid one in the other library, whose record was returned
C16_Witness ==
    /\ gpc = "done" /\ Len(games) = 1
    /\ games[1].library_path = OtherLibrary
    /\ \E m \in FoundManifests : m.library = SteamRoot /\ ~m.readable
    /\ \E m \in FoundManifests :
          m.library = SteamRoot /\ m.readable /\ ParseManifest(m).raised

\* C19: the valid manifests of every library find_all_steam_libraries
\* returns are enumerated, also when no Steam root was located and the
\* library was found by the scan of the mounted file systems.
C19_EveryLibraryEnumerated ==
    gpc = "done" =>
        \A m \in ValidManifests :
            \E i \in 1..Len(games) : games[i].app_id = GameRecord(m).app_id

(***************************************************************************)
(* download_latest_nightly.  An asset name is its stem and its extension.  *)
(***************************************************************************)
\* str.endswith
EndsWith(str, suffix) ==
    /\ Len(str) >= Len(suffix)
    /\ SubSeq(str, Len(str) - Len(suffix) + 1, Len(str)) = suffix

\* asset["name"].endswith((".zip", ".7z"))
IsArchive(name) == EndsWith(name, <<".zip">>) \/ EndsWith(name, <<".7z">>)

\* release.get("prerelease", False) or release.get("tag_name") == "nightly"
IsNightly(release) == release.prerelease \/ release.tag_name = "nightly"

\* the inner loops of lines 33-43 and 47-57: the first archive among the
\* assets of a release is downloaded to config_dir / filename and its path
\* returned; <<"next">> when the release has no archive, <<"raised">> when
\* the download fails
DownloadFrom(release, ok) ==
    LET IsArchiveAsset(asset) == IsArchive(asset)
        i == FirstIndex(release.assets, IsArchiveAsset)
    IN IF i = 0 THEN <<"next">>
       ELSE IF ~ok THEN <<"raised">>
       ELSE <<"config_dir">> \o release.assets[i]

\* a variant of the loop that stops at the first nightly release
FirstNightlyOnly(releases, ok) ==
    LET IsNightlyRelease(r) == IsNightly(r)
        i == FirstIndex(releases, IsNightlyRelease)
    IN IF i = 0 THEN <<"next">>
       ELSE IF DownloadFrom(releases[i], ok) = <<"next">> THEN <<"raised">>
       ELSE DownloadFrom(releases[i], ok)

RECURSIVE NightlyLoop(_, _)
\* the loop of lines 31-43 over the releases
NightlyLoop(releases, ok) ==
    IF releases = <<>> THEN <<"next">>
    ELSE IF IsNightly(Head(releases))
            /\ DownloadFrom(Head(releases), ok) # <<"next">>
    THEN DownloadFrom(Head(releases), ok)
    ELSE NightlyLoop(Tail(releases), ok)

\* download_latest_nightly: the path of the downloaded archive, or <<>>
\* for None
download_latest_nightly(answer, ok) ==
    LET nightly == IF answer.error THEN <<"raised">>
                   ELSE NightlyLoop(answer.releases, ok)
        stable == IF nightly # <<"next">> THEN nightly
                  ELSE IF answer.releases # <<>>
                  THEN DownloadFrom(answer.releases[1], ok)
                  ELSE <<"next">>
    IN IF stable \in {<<"next">>, <<"raised">>} THEN <<>> ELSE stable

(***************************************************************************)
(* SpecFetch: download_latest_nightly on a listing of at most MaxReleases  *)
(* releases, the requests succeeding or not.                               *)
(***************************************************************************)
AssetLists ==
    { <<>>,
      << <<"notes", ".txt">> >>,
      << <<"OptiScaler", ".zip">> >>,
      << <<"notes", ".txt">>, <<"OptiScaler_nightly", ".7z">> >>,
      << <<"OptiScaler_nightly", ".7z">>, <<"OptiScaler", ".zip">> >> }

Releases ==
    [prerelease : BOOLEAN, tag_name : {"nightly", "v0.7"}, assets : AssetLists]

RECURSIVE Listings(_)
Listings(n) ==
    IF n = 0 THEN {<<>>}
    ELSE {<<>>} \cup {<<r>> \o l : r \in Releases, l \in Listings(n - 1)}

InitFetch ==
    /\ \/ listing = [error |-> TRUE, releases |-> <<>>]
       \/ \E l \in Listings(MaxReleases) : listing = [error |-> FALSE, releases |-> l]
    /\ download_ok \in BOOLEAN
    /\ fetched = <<"pending">>
    /\ MainIdle /\ IniIdle /\ RankIdle /\ GamesIdle
    /\ SetupIdle /\ FsrIdle

\* one call of download_latest_nightly()
Fetch ==
    /\ fetched = <<"pending">>
    /\ fetched' = download_latest_nightly(listing, download_ok)
    /\ UNCHANGED <<listing, download_ok, mainVars, iniVars, rankVars, gamesVars, setup, fsr>>

NextFetch == Fetch

SpecFetch == InitFetch /\ [][NextFetch]_vars

\* the releases of the listing that hold an archive
WithArchive ==
    {i \in 1..Len(listing.releases) :
        \E k \in 1..Len(listing.releases[i].assets) :
            IsArchive(listing.releases[i].assets[k])}

\* the path of the first archive of the release at position i
FirstArchivePath(i) ==
    LET assets == listing.releases[i].assets
        k == CHOOSE k \in 1..Len(assets) :
                /\ IsArchive(assets[k])
                /\ \A j \in 1..(k - 1) : ~IsArchive(assets[j])
    IN <<"config_dir">> \o assets[k]

\* C14 as stated: the release chosen is the first one flagged prerelease or
\* tagged nightly, or the first entry when none is flagged; the result is
\* the first archive of that release, and empty when that release has no
\* archive, when the listing is empty or when a request fails.
C14_FirstNightlyChosen ==
    fetched \notin {<<"idle">>, <<"pending">>} =>
        LET nightly == {i \in 1..Len(listing.releases) :
                           IsNightly(listing.releases[i])}
            chosen == IF nightly # {}
                      THEN CHOOSE i \in nightly : \A j \in nightly : i <= j
                      ELSE IF listing.releases # <<>> THEN 1 ELSE 0
        IN fetched = IF listing.error \/ ~download_ok \/ chosen \notin WithArchive
                     THEN <<>>
                     ELSE FirstArchivePath(chosen)

\* C14 amended: the release used is the first one, in listing order, that is
\* flagged prerelease or tagged nightly and holds an archive; when there is
\* none, the first entry of the listing; the result is the first archive of
\* that release, and empty when the first entry holds no archive either,
\* when the listing is empty or when a request fails.
C14_FirstNightlyWithArchive ==
    fetched \notin {<<"idle">>, <<"pending">>} =>
        LET nightly == {i \in WithArchive : IsNightly(listing.releases[i])}
            chosen == IF nightly # {}
                      THEN CHOOSE i \in nightly : \A j \in nightly : i <= j
                      ELSE IF listing.releases # <<>> THEN 1 ELSE 0
        IN fetched = IF listing.error \/ ~download_ok \/ chosen \notin WithArchive
                     THEN <<>>
                     ELSE FirstArchivePath(chosen)

\* C14 witness: the first nightly release holds no archive and the archive
\* of another release was returned
C14_Witness ==
    /\ fetched \notin {<<"idle">>, <<"pending">>, <<>>}
    /\ \E i \in 1..Len(listing.releases) :
          /\ IsNightly(listing.releases[i])
          /\ i \notin WithArchive
          /\ \A j \in 1..(i - 1) : ~IsNightly(listing.releases[j])

(***************************************************************************)
(* SpecRoundTrip: one install followed by its uninstall, from every        *)
(* directory that holds a subset of the five names of files_to_backup,     *)
(* with no environment failure.                                            *)
(***************************************************************************)
InitRoundTrip ==
    /\ \E present \in SUBSET Range(files_to_backup) :
         dir = [x \in present |-> Original]
    /\ orig = dir
    /\ compatExists = FALSE
    /\ compatAsset = FALSE
    /\ installs_file = [exists |-> FALSE, doc |-> <<>>]
    /\ pc = "menu" /\ op = "none" /\ result = "none" /\ trace = <<>>
    /\ install_idx = 0 /\ selected_install = <<>> /\ now = 0 /\ faults = 0
    /\ IniIdle /\ RankIdle /\ GamesIdle /\ FetchIdle
    /\ SetupIdle /\ FsrIdle

NextRoundTrip ==
    \/ (now = 0 /\ InstallCompletes)
    \/ UninstallOptiscaler
    \/ MenuRemove
    \/ MenuLoop

SpecRoundTrip == InitRoundTrip /\ [][NextRoundTrip]_vars

(***************************************************************************)
(* Claims about install, uninstall and the ledger.                         *)
(***************************************************************************)
Ledger == load_installations(installs_file)

\* C1: backup_original_files, then extraction, then the restore step of
\* uninstall_optiscaler with the recorded mapping: every name of
\* files_to_backup that existed before the install exists again with its
\* original content, and no <name>.optiscaler_backup is left.
C1_BackupRestoreRoundTrip ==
    (op = "uninstall" /\ result = "True") =>
        /\ \A f \in Range(files_to_backup) :
              Exists(orig, f) => Exists(dir, f) /\ dir[f] = orig[f]
        /\ \A f \in Range(files_to_backup) : ~Exists(dir, BackupName(f))

\* C1 witness: the uninstall of an installation whose archive had overwritten
\* a backed-up original has returned, next to an original it had not touched
C1_Witness ==
    /\ op = "uninstall" /\ result = "True"
    /\ "nvngx.dll" \in DOMAIN selected_install[1].backup_files
    /\ "nvngx.dll" \in Range(selected_install[1].zip_source)
    /\ "libxess.dll" \in DOMAIN selected_install[1].backup_files

\* C2: once extraction has succeeded, install_optiscaler returns True and
\* has appended exactly one record, whatever steps 3 to 6 did.
C2_InstallSucceedsAfterExtraction ==
    (op = "install" /\ "extract" \in Range(trace)) =>
        /\ result = "True"
        /\ Cardinality({i \in 1..Len(Ledger) : Ledger[i].timestamp = now}) = 1

\* C3: when extraction fails, install_optiscaler returns False, the ledger
\* and the compat directory are as before, and no step after the extraction
\* (setup scripts, config-ensure, asset copy, save) has run.
C3_ExtractFailureAborts ==
    [][(pc = "menu" /\ op' = "install" /\ "extract failed" \in Range(trace')) =>
          /\ result' = "False"
          /\ installs_file' = installs_file
          /\ compatAsset' = compatAsset
          /\ trace' = <<"backup", "extract failed">>]_vars

\* C3 witness: an extraction that failed after it had written a member
C3_Witness ==
    /\ op = "install" /\ result = "False"
    /\ "extract failed" \in Range(trace)
    /\ Exists(dir, "OptiScaler.dll")

\* C4 as stated: once uninstall_optiscaler has returned True, the ledger no
\* longer holds the record it was given.
C4_UninstallRemovesRecord ==
    (op = "uninstall" /\ result = "True") =>
        selected_install[1] \notin Range(Ledger)

\* C4 amended: once the uninstall branch of main_menu is over after
\* uninstall_optiscaler returned True, the ledger no longer holds the record;
\* removing it is the step of main_menu that follows the call.
C4_MenuRemovesRecord ==
    (pc = "returned" /\ op = "uninstall" /\ result = "True") =>
        selected_install[1] \notin Range(Ledger)

\* C4 witness: the branch is over and another record is still in the ledger
C4_Witness ==
    /\ pc = "returned" /\ op = "uninstall" /\ result = "True"
    /\ Len(Ledger) = 1

\* C5: uninstall_optiscaler always returns True, every cleanup phase having
\* been attempted, whichever file operation failed.
C5_UninstallBestEffort ==
    (op = "uninstall" /\ pc \in {"uninstalled", "raised"}) =>
        /\ result = "True"
        /\ \A i \in 1..Len(UninstallPhases) : UninstallPhases[i] \in Range(trace)

C17_InstallOrderAndRecord ==
    [][(pc = "menu" /\ op' = "install") =>
          LET new == load_installations(installs_file')
              Pos(x) == CHOOSE i \in 1..Len(trace') : trace'[i] = x
          IN /\ trace'[1] = "backup"
             /\ \A f \in ExistingOriginals(dir) :
                   /\ Exists(dir', BackupName(f))
                   /\ dir'[BackupName(f)] = dir[f]
             /\ new # Ledger =>
                   /\ new = Append(Ledger, new[Len(new)])
                   /\ {"extract", "script", "ini", "save"} \subseteq Range(trace')
                   /\ Pos("backup") < Pos("extract")
                   /\ Pos("extract") < Pos("script")
                   /\ Pos("script") < Pos("ini")
                   /\ Pos("ini") < Pos("save")
                   /\ Pos("save") = Len(trace')
                   /\ "asset" \in Range(trace') <=> compatExists
                   /\ new[Len(new)].backup_files =
                         [f \in ExistingOriginals(dir) |-> BackupName(f)]
                   /\ new[Len(new)].fsr4_dll_copied => (compatExists /\ compatAsset')
                   /\ ~new[Len(new)].fsr4_dll_copied => compatAsset' = compatAsset
             /\ result' # "True" => new = Ledger]_vars

\* C17 witness: an install that backed a vendor DLL up, copied the asset and
\* appended its record
C17_Witness ==
    /\ op = "install" /\ result = "True" /\ Ledger # <<>>
    /\ Ledger[Len(Ledger)].fsr4_dll_copied
    /\ DOMAIN Ledger[Len(Ledger)].backup_files # {}
    /\ \E archive \in Archives : "OptiScaler Setup.bat" \in Range(archive)
                                    /\ Ledger[Len(Ledger)].zip_source = archive

\* C21: the install step's backup_original_files returns (and the record
\* keeps) a mapping whose keys are exactly the names of files_to_backup that
\* exist in the directory, each mapped to <name>.optiscaler_backup, which
\* holds a copy of the file; an absent name gets no entry and no backup
\* file, nothing in the directory is removed or changed by the backup, and
\* an original the archive does not contain is still there after the install.
C21_BackupCopiesExistingOriginals ==
    [][(pc = "menu" /\ op' = "install" /\ result' = "True") =>
          LET bk == backup_original_files(dir)
              new == load_installations(installs_file')
              rec == new[Len(new)]
          IN /\ rec.backup_files = bk.map
             /\ DOMAIN bk.map = {f \in Range(files_to_backup) : Exists(dir, f)}
             /\ \A f \in DOMAIN bk.map :
                   /\ bk.map[f] = BackupName(f)
                   /\ Exists(bk.dir, bk.map[f]) /\ bk.dir[bk.map[f]] = dir[f]
                   /\ Exists(dir', bk.map[f]) /\ dir'[bk.map[f]] = dir[f]
                   /\ f \notin Range(rec.zip_source) =>
                          Exists(dir', f) /\ dir'[f] = dir[f]
             /\ \A f \in Range(files_to_backup) \ DOMAIN bk.map :
                   Exists(bk.dir, BackupName(f)) =>
                       /\ Exists(dir, BackupName(f))
                       /\ bk.dir[BackupName(f)] = dir[BackupName(f)]
             /\ \A x \in DOMAIN dir \ {BackupName(f) : f \in DOMAIN bk.map} :
                   Exists(bk.dir, x) /\ bk.dir[x] = dir[x]]_vars

\* C21 witness: an install has returned whose directory held some, not all,
\* of the names: the record maps exactly those, their backups hold the
\* original content next to an original the archive left alone
C21_Witness ==
    /\ op = "install" /\ result = "True" /\ Ledger # <<>>
    /\ DOMAIN Ledger[1].backup_files = {"nvngx.dll", "libxess.dll"}
    /\ DOMAIN orig = {"nvngx.dll", "libxess.dll"}
    /\ \A f \in DOMAIN orig : dir[BackupName(f)] = Original
    /\ dir["libxess.dll"] = Original
    /\ ~Exists(dir, BackupName("amd_fidelityfx_fsr3.dll"))

(***************************************************************************)
(* SpecReinstall: installs and uninstalls over one target directory, each  *)
(* running to its end with no environment failure; a second install may    *)
(* come before the first uninstall.                                        *)
(***************************************************************************)
NextReinstall ==
    \/ InstallCompletes
    \/ UninstallOptiscaler
    \/ MenuRemove
    \/ MenuLoop

SpecReinstall == Init /\ [][NextReinstall]_vars

\* C26: once every record of the directory has been uninstalled (installs
\* were made and the ledger is empty again), each name of files_to_backup
\* that existed before the first install exists with its original content.
C26_OriginalsBackAfterAllUninstalls ==
    (pc = "menu" /\ now > 0 /\ Ledger = <<>>) =>
        \A f \in Range(files_to_backup) :
            Exists(orig, f) => Exists(dir, f) /\ dir[f] = orig[f]

\* C27: after one install followed by its uninstall, a file that was in the
\* directory before, whose name is not in files_to_backup and which the
\* archive did not contain, exists with its original content.
C27_ForeignFileSurvivesRoundTrip ==
    (op = "uninstall" /\ result = "True" /\ now = 1) =>
        \A f \in DOMAIN orig \ Range(files_to_backup) :
            f \notin Range(selected_install[1].zip_source) =>
                Exists(dir, f) /\ dir[f] = orig[f]

\* C28: between two operations of the menu, a ledger record whose
\* fsr4_dll_copied is true means the asset is in the compat system directory.
C28_CopiedRecordMeansAssetPresent ==
    pc = "menu" =>
        \A i \in 1..Len(Ledger) :
            Ledger[i].fsr4_dll_copied => compatExists /\ compatAsset

\* C29: uninstall_optiscaler runs from the menu only for an entered number
\* inside 1..N, N the number of ledger records, and for the record listed
\* under that number; any other number uninstalls nothing.
C29_OnlyListedNumbersUninstall ==
    pc = "uninstalled" =>
        /\ install_idx + 1 \in 1..Len(Ledger)
        /\ selected_install[1] = Ledger[install_idx + 1]

\* C30: when an executable sits directly in the game root and its file name
\* carries none of skip_names, the returned list holds the game root as a
\* "Main Game Directory" candidate of priority 1, whatever the names of the
\* game root and of the directories above it.
C30_RootExecutableIsMainCandidate ==
    rpc = "done" =>
        \A f \in tree.files :
            (f.parent = <<>> /\ ~AnyIn(skip_names, Lower(f.name))) =>
                \E i \in 1..Len(exe_locations) :
                    /\ exe_locations[i].path = PathStr(tree.game_dir)
                    /\ exe_locations[i].type = "Main Game Directory"
                    /\ exe_locations[i].priority = 1

Event(kind, script, terminal) ==
    [kind |-> kind, script |-> script, terminal |-> terminal]

RECURSIVE TerminalLoop(_, _, _)
\* the loop over `terminals` from position k on: the first one that `which`
\* finds and Popen starts, then `break`
TerminalLoop(setup_script, available, k) ==
    IF k > Len(terminals) THEN <<>>
    ELSE IF terminals[k] \in available
         THEN <<Event("launched", setup_script, terminals[k])>>
         ELSE TerminalLoop(setup_script, available, k + 1)

\* the body of the loop over setup_scripts for a script that exists
SetupBody(setup_script, available, chmod_raises) ==
    IF chmod_raises THEN <<Event("error", setup_script, "")>>
    ELSE LET launched == TerminalLoop(setup_script, available, 1)
         IN IF launched # <<>> THEN launched
            ELSE <<Event("asked", setup_script, "")>>

RECURSIVE ScriptLoopNoBreak(_, _, _, _)
\* a variant of the loop that goes on to the next script after the body
ScriptLoopNoBreak(present, available, chmod_raises, k) ==
    IF k > Len(setup_scripts) THEN <<>>
    ELSE IF setup_scripts[k] \in present
         THEN SetupBody(setup_scripts[k], available, chmod_raises)
              \o ScriptLoopNoBreak(present, available, chmod_raises, k + 1)
         ELSE ScriptLoopNoBreak(present, available, chmod_raises, k + 1)

RECURSIVE ScriptLoop(_, _, _, _)
\* the loop over setup_scripts from position k on: the body for the first
\* script that exists, then `break`
ScriptLoop(present, available, chmod_raises, k) ==
    IF k > Len(setup_scripts) THEN <<>>
    ELSE IF setup_scripts[k] \in present
         THEN SetupBody(setup_scripts[k], available, chmod_raises)
         ELSE ScriptLoop(present, available, chmod_raises, k + 1)

run_optiscaler_setup(present, available, chmod_raises) ==
    ScriptLoop(present, available, chmod_raises, 1)

InitSetup ==
    /\ \E present \in SUBSET Range(setup_scripts),
          available \in SUBSET Range(terminals),
          chmod_raises \in BOOLEAN, answer \in {"y", "n"} :
         setup = [pc |-> "call", present |-> present, available |-> available,
                  chmod_raises |-> chmod_raises, answer |-> answer,
                  events |-> <<>>]
    /\ MainIdle /\ IniIdle /\ RankIdle /\ GamesIdle /\ FetchIdle /\ FsrIdle

\* run_optiscaler_setup(install_dir) from its call to its return; the
\* operator's answer to the manual prompt changes nothing but a message
RunSetup ==
    /\ setup.pc = "call"
    /\ setup' = [setup EXCEPT
                    !.pc = "returned",
                    !.events = run_optiscaler_setup(setup.present, setup.available,
                                                    setup.chmod_raises)]
    /\ UNCHANGED <<mainVars, iniVars, rankVars, gamesVars, fetchVars, fsr>>

NextSetup == RunSetup

SpecSetup == InitSetup /\ [][NextSetup]_vars

Position(s, x) == CHOOSE i \in 1..Len(s) : s[i] = x

Launches == SelectSeq(setup.events, LAMBDA e : e.kind = "launched")

Prompts == SelectSeq(setup.events, LAMBDA e : e.kind = "asked")

\* C22: one run of run_optiscaler_setup launches at most one script, in one
\* terminal: the first of setup_scripts that exists, in the first of
\* `terminals` that is available; when a script exists, chmod does not
\* raise and no terminal is available, nothing is launched and the operator
\* is asked once whether the script was run manually.
C22_OneScriptInFirstTerminal ==
    setup.pc = "returned" =>
        /\ Len(Launches) <= 1
        /\ \A i \in 1..Len(Launches) :
              LET e == Launches[i] IN
              /\ e.script \in setup.present
              /\ \A s \in setup.present :
                    Position(setup_scripts, e.script) <= Position(setup_scripts, s)
              /\ e.terminal \in setup.available
              /\ \A t \in setup.available :
                    Position(terminals, e.terminal) <= Position(terminals, t)
        /\ setup.available = {} => Launches = <<>>
        /\ (setup.available = {} /\ setup.present # {} /\ ~setup.chmod_raises) =>
              Len(Prompts) = 1
        /\ Launches # <<>> => Prompts = <<>>

\* C22 witness: all three scripts exist and the first terminals of the list
\* are missing: setup_linux.sh was launched in kitty
C22_Witness ==
    /\ setup.pc = "returned"
    /\ setup.present = Range(setup_scripts)
    /\ setup.available = {"kitty", "xterm"}
    /\ setup.events = <<Event("launched", "setup_linux.sh", "kitty")>>

(***************************************************************************)
(* SpecFsr: FSRManager.  The state is the cached fsr4_dll_path ("None",    *)
(* "config" for <config dir>/amdxcffx64.dll, "other" for a file one of the *)
(* search paths holds) and the files the manager reads and writes, each    *)
(* with its content: the copy in the config directory, the file of the     *)
(* search path, the versions find_available_fsr4_versions lists, the file  *)
(* at the custom path the operator may type, and the compat system32       *)
(* directory with its amdxcffx64.dll.  One environment failure at most is  *)
(* injected per call (fault).                                              *)
(***************************************************************************)
Absent == "absent"

\* find_fsr4_dll: the config directory first, then the search paths
find_fsr4_dll(config_dll, other_dll) ==
    IF config_dll # Absent THEN "config"
    ELSE IF other_dll # Absent THEN "other" ELSE "None"

\* the content of the file self.fsr4_dll_path names
ActiveContent(f) ==
    IF f.fsr4_dll_path = "config" THEN f.config_dll
    ELSE IF f.fsr4_dll_path = "other" THEN f.other_dll ELSE Absent

\* self.fsr4_dll_path and self.fsr4_dll_path.exists()
Cached(f) == f.fsr4_dll_path # "None" /\ ActiveContent(f) # Absent

\* download_fsr4_dll: the operator answers y and types the custom path, or
\* answers n; a copy that raises is caught
download_fsr4_dll(f, reply, fault) ==
    IF reply = "y" /\ f.custom_dll # Absent /\ fault # "download copy"
    THEN [f EXCEPT !.config_dll = f.custom_dll, !.fsr4_dll_path = "config",
                   !.select_result = "True"]
    ELSE [f EXCEPT !.select_result = "False"]

\* a variant of select_fsr4_version that copies the chosen version and
\* leaves the cached path as it was
SelectKeepsCachedPath(f, choice, reply, fault) ==
    IF f.versions # <<>> /\ choice.valid /\ choice.n \in 1..Len(f.versions)
    THEN [f EXCEPT !.config_dll = f.versions[choice.n], !.select_result = "True"]
    ELSE [f EXCEPT !.select_result = "False"]

\* select_fsr4_version: choice is what the operator types at the prompt,
\* valid when int() accepts it
select_fsr4_version(f, choice, reply, fault) ==
    IF f.versions = <<>> THEN download_fsr4_dll(f, reply, fault)
    ELSE IF ~choice.valid THEN [f EXCEPT !.select_result = "False"]
    ELSE IF 1 <= choice.n /\ choice.n <= Len(f.versions)
         THEN IF fault = "select copy"
              THEN [f EXCEPT !.select_result = "raised"]
              ELSE [f EXCEPT !.config_dll = f.versions[choice.n],
                             !.fsr4_dll_path = "config",
                             !.select_result = "True"]
    ELSE IF choice.n = Len(f.versions) + 1
         THEN download_fsr4_dll(f, reply, fault)
    ELSE [f EXCEPT !.select_result = "False"]

\* lines 138-147: mkdir(parents=True, exist_ok=True) outside the try, the
\* copy inside it
CopyToSystem32(f, steps, fault) ==
    IF fault = "mkdir" /\ ~f.system32
    THEN [f EXCEPT !.result = "raised", !.steps = steps \o <<"mkdir">>]
    ELSE IF fault = "copy"
    THEN [f EXCEPT !.system32 = TRUE, !.result = "False",
                   !.steps = steps \o <<"mkdir", "copy">>]
    ELSE [f EXCEPT !.system32 = TRUE, !.compat_dll = ActiveContent(f),
                   !.result = "True", !.steps = steps \o <<"mkdir", "copy">>]

\* a variant of copy_fsr4_dll_to_compatdata that never asks for a selection
CopyWithoutSelection(f, choice, reply, fault) ==
    CopyToSystem32([f EXCEPT !.select_result = "none"], <<>>, fault)

copy_fsr4_dll_to_compatdata(f, choice, reply, fault) ==
    IF Cached(f)
    THEN CopyToSystem32([f EXCEPT !.select_result = "none"], <<>>, fault)
    ELSE LET sel == select_fsr4_version(f, choice, reply, fault)
         IN IF sel.select_result = "True"
            THEN CopyToSystem32(sel, <<"select">>, fault)
            ELSE [sel EXCEPT !.result = sel.select_result, !.steps = <<"select">>]

\* remove_fsr4_dll_from_compatdata: an unlink that raises is caught
remove_fsr4_dll_from_compatdata(f, fault) ==
    IF f.compat_dll # Absent /\ fault = "unlink"
    THEN [f EXCEPT !.result = "False", !.steps = <<"unlink">>]
    ELSE [f EXCEPT !.compat_dll = Absent, !.result = "True",
                   !.steps = IF f.compat_dll # Absent THEN <<"unlink">> ELSE <<>>]

\* what find_available_fsr4_versions may list: the content of each version
VersionLists == {<<>>, <<"v1">>, <<"v1", "v2">>}

\* what the operator may type at "Select FSR4 version": a number from 0 to
\* one past Cancel, or a text int() rejects
Choices(f) ==
    {[valid |-> TRUE, n |-> n] : n \in 0..(Len(f.versions) + 3)}
        \cup {[valid |-> FALSE, n |-> 0]}

Faults == {"none", "select copy", "download copy", "mkdir", "copy", "unlink"}

\* FSRManager.__init__ on any set of files
InitFsr ==
    /\ \E config_dll \in {Absent, "old"}, other_dll \in {Absent, "found"},
          versions \in VersionLists, custom_dll \in {Absent, "custom"},
          compat \in {<<FALSE, Absent>>, <<TRUE, Absent>>, <<TRUE, "old">>} :
         fsr = [op |-> "init",
                fsr4_dll_path |-> find_fsr4_dll(config_dll, other_dll),
                config_dll |-> config_dll, other_dll |-> other_dll,
                versions |-> versions, custom_dll |-> custom_dll,
                system32 |-> compat[1], compat_dll |-> compat[2],
                choice |-> [valid |-> FALSE, n |-> 0], fault |-> "none",
                select_result |-> "none", steps |-> <<>>, result |-> "none"]
    /\ MainIdle /\ IniIdle /\ RankIdle /\ GamesIdle /\ FetchIdle /\ SetupIdle

Call(f, name, choice, fault) ==
    [f EXCEPT !.op = name, !.choice = choice, !.fault = fault,
              !.select_result = "none", !.steps = <<>>, !.result = "none"]

\* select_fsr4_version called from the menu
SelectVersion ==
    /\ \E choice \in Choices(fsr), reply \in {"y", "n"}, fault \in Faults :
         LET sel == select_fsr4_version(Call(fsr, "select", choice, fault),
                                        choice, reply, fault)
         IN fsr' = [sel EXCEPT !.result = sel.select_result, !.steps = <<"select">>]
    /\ UNCHANGED <<mainVars, iniVars, rankVars, gamesVars, fetchVars, setup>>

\* copy_fsr4_dll_to_compatdata called by install_optiscaler
CopyToCompat ==
    /\ \E choice \in Choices(fsr), reply \in {"y", "n"}, fault \in Faults :
         fsr' = copy_fsr4_dll_to_compatdata(Call(fsr, "copy", choice, fault),
                                            choice, reply, fault)
    /\ UNCHANGED <<mainVars, iniVars, rankVars, gamesVars, fetchVars, setup>>

\* remove_fsr4_dll_from_compatdata called by uninstall_optiscaler
RemoveFromCompat ==
    /\ \E fault \in Faults :
         fsr' = remove_fsr4_dll_from_compatdata(
                    Call(fsr, "remove", [valid |-> FALSE, n |-> 0], fault), fault)
    /\ UNCHANGED <<mainVars, iniVars, rankVars, gamesVars, fetchVars, setup>>

NextFsr ==
    \/ SelectVersion
    \/ CopyToCompat
    \/ RemoveFromCompat

SpecFsr == InitFsr /\ [][NextFsr]_vars

\* the copy step of copy_fsr4_dll_to_compatdata was reached and raised
CopyRaised(f) == "copy" \in Range(f.steps) /\ f.fault = "copy"

\* C23 as stated: copy_fsr4_dll_to_compatdata asks for a selection first
\* exactly when no active asset is cached, has the compat system directory
\* exist once it copies, and returns False only when the copy raised.
C23_FailsOnlyOnCopyError ==
    [][fsr'.op = "copy" =>
          /\ "select" \in Range(fsr'.steps) <=> ~Cached(fsr)
          /\ "select" \in Range(fsr'.steps) => fsr'.steps[1] = "select"
          /\ "copy" \in Range(fsr'.steps) => fsr'.system32
          /\ fsr'.result = "True" =>
                fsr'.compat_dll # Absent /\ fsr'.compat_dll = ActiveContent(fsr')
          /\ fsr'.result = "False" => CopyRaised(fsr')]_vars

\* C23: copy_fsr4_dll_to_compatdata asks for a selection first exactly when
\* no active asset is cached (or the cached file is gone), has the compat
\* system directory exist once it copies, and returns False in two cases:
\* the selection it asked for returned False, with the compat directory
\* untouched, or the copy raised.
C23_FailsOnSelectionOrCopyError ==
    [][fsr'.op = "copy" =>
          /\ "select" \in Range(fsr'.steps) <=> ~Cached(fsr)
          /\ "select" \in Range(fsr'.steps) => fsr'.steps[1] = "select"
          /\ "copy" \in Range(fsr'.steps) => fsr'.system32
          /\ fsr'.result = "True" =>
                fsr'.compat_dll # Absent /\ fsr'.compat_dll = ActiveContent(fsr')
          /\ fsr'.result = "False" <=>
                (fsr'.select_result = "False" \/ CopyRaised(fsr'))
          /\ fsr'.select_result = "False" =>
                /\ fsr'.steps = <<"select">>
                /\ fsr'.system32 = fsr.system32
                /\ fsr'.compat_dll = fsr.compat_dll]_vars

\* C23 witness: no asset was cached, the operator cancelled the selection,
\* and the call returned False without creating the compat system directory
C23_Witness ==
    /\ fsr.op = "copy" /\ fsr.result = "False"
    /\ fsr.fsr4_dll_path = "None"
    /\ fsr.select_result = "False" /\ fsr.steps = <<"select">>
    /\ fsr.choice = [valid |-> TRUE, n |-> Len(fsr.versions) + 2]
    /\ fsr.versions # <<>> /\ fsr.fault = "none"
    /\ ~fsr.system32

\* C25: after select_fsr4_version returns True the cached path is
\* <config dir>/amdxcffx64.dll and that file holds the content of the
\* version chosen from the list (of the custom file when the operator
\* browsed for one); when it returns False, as it does when the operator
\* cancels or types an invalid choice, the cached path and the config copy
\* are as before.
C25_SelectSetsActiveCopy ==
    [][fsr'.op = "select" =>
          LET n == fsr'.choice.n
              listed == /\ fsr.versions # <<>> /\ fsr'.choice.valid
                        /\ n \in 1..Len(fsr.versions)
              browse == \/ fsr.versions = <<>>
                        \/ fsr'.choice.valid /\ n = Len(fsr.versions) + 1
          IN /\ fsr'.result = "True" =>
                   /\ fsr'.fsr4_dll_path = "config"
                   /\ fsr'.config_dll # Absent
                   /\ fsr'.config_dll =
                         (IF listed THEN fsr.versions[n] ELSE fsr.custom_dll)
             /\ (~listed /\ ~browse) => fsr'.result = "False"
             /\ fsr'.result = "False" =>
                   /\ fsr'.fsr4_dll_path = fsr.fsr4_dll_path
                   /\ fsr'.config_dll = fsr.config_dll
             /\ (listed /\ fsr'.fault # "select copy") => fsr'.result = "True"]_vars

\* C25 witness: the second listed version was chosen while another file was
\* cached: the config copy holds it and is the cached path
C25_Witness ==
    /\ fsr.op = "select" /\ fsr.result = "True"
    /\ fsr.choice = [valid |-> TRUE, n |-> 2]
    /\ fsr.other_dll = "found"
    /\ fsr.config_dll = "v2" /\ fsr.fsr4_dll_path = "config"

====
